---- MODULE Spec2Model ----
(***************************************************************************)
(* Command recording of the dx12 backend (src/backend/dx12/src/command.rs) *)
(* as a state machine: the two pipeline bind caches with their virtual     *)
(* root-signature register files, the active bind point, the lazily        *)
(* flushed root constants and descriptor tables, and the buffer<->image    *)
(* copy-region splitter.                                                   *)
(*                                                                         *)
(* The native command list is modelled by the calls the last operation     *)
(* recorded on it (calls) and by the pipeline-state object it currently    *)
(* holds (pso).  A Rust panic (assert!, expect, index out of bounds) is    *)
(* the flag aborted: recording stops there.                                *)
(***************************************************************************)
EXTENDS Integers, Sequences, FiniteSets, TLC

VARIABLES
    gr_pipeline,      \* CommandBuffer::gr_pipeline   (PipelineCache)
    comp_pipeline,    \* CommandBuffer::comp_pipeline (PipelineCache)
    active_bindpoint, \* CommandBuffer::active_bindpoint
    copies,           \* CommandBuffer::copies (scratch Vec<Copy>)
    pso,              \* pipeline state held by the native list (0: none)
    calls,            \* native calls recorded by the last operation
    op,               \* the last operation
    nops,             \* number of operations recorded so far
    aborted,          \* a panic has unwound the recording thread
    written,          \* history: registers written since the last flush, per bind point
    bound,            \* history: pipeline last passed to bind_*_pipeline, per bind point (0: none)
    since,            \* history: what happened to a bind point since its last flush
    region,           \* history: the region and image of the last copy call
    produced,         \* history: the Copy entries the last copy call produced
    pass_cache,       \* CommandBuffer::pass_cache (an Option: << >> or << cache >>)
    cur_subpass,      \* CommandBuffer::cur_subpass
    pass_log,         \* history: barrier insertions and clears since begin_render_pass
    occlusion_query,  \* CommandBuffer::occlusion_query (<< >> or << query >>)
    pipeline_stats_query, \* CommandBuffer::pipeline_stats_query (<< >> or << id >>)
    viewport_cache,   \* CommandBuffer::viewport_cache (SmallVec of D3D12_VIEWPORT)
    scissor_cache,    \* CommandBuffer::scissor_cache (SmallVec of D3D12_RECT)
    other,            \* a second CommandBuffer: its fields, its list and its thread
    this              \* which of the two command buffers the fields above belong to

vars == <<gr_pipeline, comp_pipeline, active_bindpoint, copies, pso, calls, op,
          nops, aborted, written, bound, since, region, produced,
          pass_cache, cur_subpass, pass_log, occlusion_query, pipeline_stats_query,
          viewport_cache, scissor_cache, other, this>>

bindVars == <<gr_pipeline, comp_pipeline, active_bindpoint, pso, written, bound, since>>
copyVars == <<copies, region, produced>>
passVars == <<pass_cache, cur_subpass, pass_log>>
queryVars == <<occlusion_query, pipeline_stats_query>>
viewVars == <<viewport_cache, scissor_cache>>

-----------------------------------------------------------------------------
(* Bounds of the model *)

\* operations recorded in one run of a command buffer
MaxOps == 4

-----------------------------------------------------------------------------
(* Program constants *)

ROOT_SIGNATURE_SIZE == 64

Regs == 0 .. (ROOT_SIGNATURE_SIZE - 1)

\* The width of the `as u32` cast of a table offset.  TLC's integers are 32-bit,
\* so the 2^32 of the cast is scaled to 2^16; every GPU address of the model is
\* below it.
OFFSET_WRAP == 65536

\* `!0` of a usize, the value of cur_subpass outside a render pass.  Scaled to
\* the largest integer of TLC; every subpass count of the model is far below it.
USIZE_MAX == 2147483647

-----------------------------------------------------------------------------
(* RootElement, UserData, PipelineCache *)

Undefined == [tag |-> "Undefined", v |-> 0]
Constant(val) == [tag |-> "Constant", v |-> val]
TableSrvCbvUav(off) == [tag |-> "TableSrvCbvUav", v |-> off]
TableSampler(off) == [tag |-> "TableSampler", v |-> off]

\* UserData::new
UserDataNew == [data |-> [r \in Regs |-> Undefined], dirty_mask |-> {}]

\* Option<(pipeline state, root signature)>
NoPipeline == [some |-> FALSE, raw |-> 0, signature |-> 0]
SomePipeline(raw, sig) == [some |-> TRUE, raw |-> raw, signature |-> sig]

\* PipelineCache::new
PipelineCacheNew ==
    [pipeline            |-> NoPipeline,
     num_parameter_slots |-> 0,
     root_constants      |-> <<>>,
     user_data           |-> UserDataNew,
     srv_cbv_uav_start   |-> 0,
     sampler_start       |-> 0]

\* A step of a helper that may panic: the value it reached and whether it panicked.
Ok(val) == [val |-> val, panic |-> FALSE]
Panic(val) == [val |-> val, panic |-> TRUE]

\* UserData::set_constants, one element of its loop
RECURSIVE SetConstantsFrom(_, _, _, _)
SetConstantsFrom(ud, offset, data, i) ==
    IF i > Len(data) THEN ud
    ELSE SetConstantsFrom(
            [data       |-> [ud.data EXCEPT ![offset + i - 1] = Constant(data[i])],
             dirty_mask |-> ud.dirty_mask \cup {offset + i - 1}],
            offset, data, i + 1)

\* UserData::set_constants
set_constants(ud, offset, data) ==
    IF offset + Len(data) <= ROOT_SIGNATURE_SIZE
    THEN Ok(SetConstantsFrom(ud, offset, data, 1))
    ELSE Panic(ud)

\* UserData::set_srv_cbv_uav_table
set_srv_cbv_uav_table(ud, offset, table_start) ==
    IF offset < ROOT_SIGNATURE_SIZE
    THEN Ok([data       |-> [ud.data EXCEPT ![offset] = TableSrvCbvUav(table_start)],
             dirty_mask |-> ud.dirty_mask \cup {offset}])
    ELSE Panic(ud)

\* UserData::set_sampler_table
set_sampler_table(ud, offset, table_start) ==
    IF offset < ROOT_SIGNATURE_SIZE
    THEN Ok([data       |-> [ud.data EXCEPT ![offset] = TableSampler(table_start)],
             dirty_mask |-> ud.dirty_mask \cup {offset}])
    ELSE Panic(ud)

\* UserData::clear_dirty
clear_dirty(ud, i) == [ud EXCEPT !.dirty_mask = @ \ {i}]

-----------------------------------------------------------------------------
(* Objects the command buffer borrows: pipeline layouts, pipelines,        *)
(* descriptor sets.  They are created elsewhere; recording reads the       *)
(* fields below.                                                           *)

SRV_CBV_UAV == "SRV_CBV_UAV"
SAMPLERS == "SAMPLERS"

None == [some |-> FALSE, ptr |-> 0]
Some(p) == [some |-> TRUE, ptr |-> p]

RootConstant(s, e) == [start |-> s, end |-> e]

\* n::PipelineLayout: root signature, tables per set, push-constant ranges
LayoutA ==
    [raw |-> 1, tables |-> << {SRV_CBV_UAV} >>,
     root_constants |-> << RootConstant(0, 2) >>, num_parameter_slots |-> 2]
LayoutB ==
    [raw |-> 2, tables |-> << {SRV_CBV_UAV}, {SRV_CBV_UAV, SAMPLERS} >>,
     root_constants |-> << >>, num_parameter_slots |-> 3]
LayoutC ==
    [raw |-> 3, tables |-> << {SAMPLERS} >>,
     root_constants |-> << RootConstant(1, 2) >>, num_parameter_slots |-> 2]

Layouts == {LayoutA, LayoutB, LayoutC}

\* n::GraphicsPipeline / n::ComputePipeline built from a layout
Pipeline(raw, layout) ==
    [raw |-> raw, signature |-> layout.raw,
     num_parameter_slots |-> layout.num_parameter_slots,
     constants |-> layout.root_constants]

GraphicsPipelines == {Pipeline(1, LayoutA), Pipeline(2, LayoutA), Pipeline(3, LayoutB)}
ComputePipelines == {Pipeline(11, LayoutA), Pipeline(12, LayoutC)}

\* n::DescriptorSet: the GPU start of its two heaps, its first view and sampler
DescriptorSet(srv, smp, view, sampler) ==
    [srv_cbv_uav_gpu_start |-> srv, sampler_gpu_start |-> smp,
     first_gpu_view |-> view, first_gpu_sampler |-> sampler]

\* two sets of one heap pair, and a set of another heap pair
SetV == DescriptorSet(1000, 2000, Some(1008), None)
SetVS == DescriptorSet(1000, 2000, Some(1016), Some(2004))
SetH == DescriptorSet(4000, 5000, None, Some(5008))

\* the arguments of the bind_*_descriptor_sets calls: an empty batch, batches
\* that fit their layout, a set with a sampler for a layout without one, and a
\* first_set past the layout's tables
SetRequest(layout, first_set, sets) ==
    [layout |-> layout, first_set |-> first_set, sets |-> sets]
SetRequests ==
    { SetRequest(LayoutA, 0, << >>),
      SetRequest(LayoutA, 0, << SetV >>),
      SetRequest(LayoutB, 0, << SetV, SetVS >>),
      SetRequest(LayoutB, 1, << SetVS >>),
      SetRequest(LayoutC, 0, << SetH >>),
      SetRequest(LayoutA, 0, << SetVS >>),
      SetRequest(LayoutA, 2, << SetV >>) }

\* the arguments of the push_*_constants calls
PushRequest(layout, offset, constants) ==
    [layout |-> layout, offset |-> offset, constants |-> constants]
PushRequests ==
    { PushRequest(LayoutA, 0, << 7, 9 >>),
      PushRequest(LayoutA, 0, << 7 >>),
      PushRequest(LayoutA, 1, << 9 >>),
      PushRequest(LayoutC, 1, << 7 >>) }

-----------------------------------------------------------------------------
(* Native calls *)

NativeCall(name, arg) ==
    [call |-> name, slot |-> 0, data |-> <<>>, regs |-> <<>>, arg |-> arg]
\* constants_update(slot, data); regs: the registers the data was gathered from
ConstantsCall(name, slot, data, regs) ==
    [call |-> name, slot |-> slot, data |-> data, regs |-> regs, arg |-> 0]
\* table_update(slot, gpu); regs: the register the handle was resolved from
TableCall(name, slot, gpu, reg) ==
    [call |-> name, slot |-> slot, data |-> <<>>, regs |-> <<reg>>, arg |-> gpu]

-----------------------------------------------------------------------------
(* bind_descriptor_sets *)

RECURSIVE CountTables(_, _)
\* the loop over layout.tables[..first_set]
CountTables(tables, n) ==
    IF n = 0 THEN 0
    ELSE CountTables(tables, n - 1)
         + (IF SRV_CBV_UAV \in tables[n] THEN 1 ELSE 0)
         + (IF SAMPLERS \in tables[n] THEN 1 ELSE 0)

\* variant of TableBaseOffset that starts the tables at register 0
TableBaseOffsetZero(root_constants) == 0

RECURSIVE TableBaseOffset(_)
\* layout.root_constants.iter().fold(0, |sum, c| sum + c.range.end - c.range.start)
TableBaseOffset(root_constants) ==
    IF root_constants = <<>> THEN 0
    ELSE (Head(root_constants).end - Head(root_constants).start)
         + TableBaseOffset(Tail(root_constants))

\* (gpu.ptr - start) as u32
TableOffset(gpu, start) == (gpu - start) % OFFSET_WRAP

\* the first_gpu_view.map(..) closure of one (set, table) pair
BindView(st, set, table, base, srv_start) ==
    IF ~set.first_gpu_view.some THEN Ok(st)
    ELSE IF SRV_CBV_UAV \notin table THEN Panic(st)
    ELSE LET w == set_srv_cbv_uav_table(st.ud, st.table_id + base,
                                        TableOffset(set.first_gpu_view.ptr, srv_start))
         IN  [val |-> [ud |-> w.val, table_id |-> st.table_id + 1], panic |-> w.panic]

\* the first_gpu_sampler.map(..) closure of one (set, table) pair
BindSampler(st, set, table, base, smp_start) ==
    IF ~set.first_gpu_sampler.some THEN Ok(st)
    ELSE IF SAMPLERS \notin table THEN Panic(st)
    ELSE LET w == set_sampler_table(st.ud, st.table_id + base,
                                    TableOffset(set.first_gpu_sampler.ptr, smp_start))
         IN  [val |-> [ud |-> w.val, table_id |-> st.table_id + 1], panic |-> w.panic]

RECURSIVE BindSetsFrom(_, _, _, _, _, _, _)
\* for (set, table) in sets.zip(layout.tables[first_set..].iter())
BindSetsFrom(st, sets, tables, k, base, srv_start, smp_start) ==
    IF k > Len(sets) \/ k > Len(tables) THEN Ok(st)
    ELSE LET v == BindView(st, sets[k], tables[k], base, srv_start) IN
         IF v.panic THEN v
         ELSE LET s == BindSampler(v.val, sets[k], tables[k], base, smp_start) IN
              IF s.panic THEN s
              ELSE BindSetsFrom(s.val, sets, tables, k + 1, base, srv_start, smp_start)

\* no first set: the heap bases are forgotten
NoSetsForgetHeaps(pipeline) ==
    [val |-> [pipeline EXCEPT !.srv_cbv_uav_start = 0, !.sampler_start = 0],
     panic |-> FALSE, calls |-> <<>>]

\* no first set (sets.peek() is None): return before anything is recorded
NoSets(pipeline) ==
    [val |-> pipeline, panic |-> FALSE, calls |-> <<>>]

\* bind_descriptor_sets(raw, pipeline, layout, first_set, sets):
\* the cache it leaves, the native calls it records, whether it panicked
bind_descriptor_sets(pipeline, layout, first_set, sets) ==
    IF sets = <<>> THEN NoSets(pipeline)
    ELSE
      LET set_0 == sets[1]
          heaps == << NativeCall("SetDescriptorHeaps", set_0.srv_cbv_uav_gpu_start) >>
          p1 == [pipeline EXCEPT !.srv_cbv_uav_start = set_0.srv_cbv_uav_gpu_start,
                                 !.sampler_start = set_0.sampler_gpu_start]
      IN
      IF first_set > Len(layout.tables)
      THEN [val |-> p1, panic |-> TRUE, calls |-> heaps]
      ELSE
        LET table_id == CountTables(layout.tables, first_set)
            base == TableBaseOffset(layout.root_constants)
            rest == SubSeq(layout.tables, first_set + 1, Len(layout.tables))
            r == BindSetsFrom([ud |-> p1.user_data, table_id |-> table_id],
                              sets, rest, 1, base,
                              p1.srv_cbv_uav_start, p1.sampler_start)
        IN [val |-> [p1 EXCEPT !.user_data = r.val.ud], panic |-> r.panic,
            calls |-> heaps]

-----------------------------------------------------------------------------
(* push_constants *)

Min(a, b) == IF a < b THEN a ELSE b

RECURSIVE PushConstantsFrom(_, _, _, _, _)
\* for root_constant in &layout.root_constants
PushConstantsFrom(ud, root_constants, k, offset, constants) ==
    IF k > Len(root_constants) THEN Ok(ud)
    ELSE
      LET rc == root_constants[k]
          num == Len(constants)
      IN
      IF ~(rc.start <= rc.end) THEN Panic(ud)
      ELSE IF rc.start >= offset /\ rc.start < offset + num
      THEN LET start == rc.start - offset
               end == Min(num, rc.end - offset)
               w == set_constants(ud, offset, SubSeq(constants, start + 1, end))
           IN IF w.panic THEN w
              ELSE PushConstantsFrom(w.val, root_constants, k + 1, offset, constants)
      ELSE PushConstantsFrom(ud, root_constants, k + 1, offset, constants)

\* CommandBuffer::push_constants(user_data, layout, offset, constants)
push_constants(ud, layout, offset, constants) ==
    PushConstantsFrom(ud, layout.root_constants, 1, offset, constants)

-----------------------------------------------------------------------------
(* flush_user_data *)

RECURSIVE FlushConstantsStrict(_, _, _, _, _, _)
\* variant of FlushConstants that gives up a range that holds a register
\* without a constant
FlushConstantsStrict(ud, root_constants, i, cur_index, name, out) ==
    IF i > Len(root_constants) THEN [ud |-> ud, calls |-> out]
    ELSE
      LET num_constants == root_constants[i].end - root_constants[i].start
          regs == [k \in 1..num_constants |-> cur_index + k - 1]
          data == [k \in 1..num_constants |-> ud.data[regs[k]].v]
          cleared == [ud EXCEPT !.dirty_mask = @ \ {regs[k] : k \in 1..num_constants}]
      IN FlushConstantsStrict(cleared, root_constants, i + 1, cur_index + num_constants,
                              name,
                              IF \A k \in 1..num_constants : ud.data[regs[k]].tag = "Constant"
                              THEN Append(out, ConstantsCall(name, i - 1, data, regs))
                              ELSE out)

RECURSIVE FlushConstants(_, _, _, _, _, _)
\* for (i, root_constant) in pipeline.root_constants.iter().enumerate()
FlushConstants(ud, root_constants, i, cur_index, name, out) ==
    IF i > Len(root_constants) THEN [ud |-> ud, calls |-> out]
    ELSE
      LET num_constants == root_constants[i].end - root_constants[i].start
          regs == [k \in 1..num_constants |-> cur_index + k - 1]
          data == [k \in 1..num_constants |->
                      IF ud.data[regs[k]].tag = "Constant"
                      THEN ud.data[regs[k]].v
                      ELSE 0]
          cleared == [ud EXCEPT !.dirty_mask = @ \ {regs[k] : k \in 1..num_constants}]
      IN FlushConstants(cleared, root_constants, i + 1, cur_index + num_constants,
                        name, Append(out, ConstantsCall(name, i - 1, data, regs)))

\* variant of TableHandle that resolves any element, table or not, to a handle
TableHandleLoose(pipeline, elem) ==
    IF elem.tag = "TableSampler"
    THEN [ok |-> TRUE, ptr |-> pipeline.sampler_start + elem.v]
    ELSE [ok |-> TRUE, ptr |-> pipeline.srv_cbv_uav_start + elem.v]

\* variant of TableHandle that resolves each table against the other heap
TableHandleOtherHeap(pipeline, elem) ==
    IF elem.tag = "TableSrvCbvUav"
    THEN [ok |-> TRUE, ptr |-> pipeline.sampler_start + elem.v]
    ELSE IF elem.tag = "TableSampler"
    THEN [ok |-> TRUE, ptr |-> pipeline.srv_cbv_uav_start + elem.v]
    ELSE [ok |-> FALSE, ptr |-> 0]

\* the match on user_data.data[table_index]: the GPU handle, or the error arm
TableHandle(pipeline, elem) ==
    IF elem.tag = "TableSrvCbvUav"
    THEN [ok |-> TRUE, ptr |-> pipeline.srv_cbv_uav_start + elem.v]
    ELSE IF elem.tag = "TableSampler"
    THEN [ok |-> TRUE, ptr |-> pipeline.sampler_start + elem.v]
    ELSE [ok |-> FALSE, ptr |-> 0]

\* variant of FlushTable that leaves the register dirty after table_update
FlushTableKeepDirty(pipeline, ud, i, table_index, name, out) ==
    LET h == TableHandle(pipeline, ud.data[table_index]) IN
    IF h.ok
    THEN [ud |-> ud,
          calls |-> Append(out, TableCall(name, i, h.ptr, table_index))]
    ELSE [ud |-> ud, calls |-> out]

\* the body of the table loop for a dirty register: table_update, then clear_dirty
FlushTable(pipeline, ud, i, table_index, name, out) ==
    LET h == TableHandle(pipeline, ud.data[table_index]) IN
    IF h.ok
    THEN [ud |-> clear_dirty(ud, table_index),
          calls |-> Append(out, TableCall(name, i, h.ptr, table_index))]
    ELSE [ud |-> ud, calls |-> out]

RECURSIVE FlushTables(_, _, _, _, _, _, _)
\* for i in num_root_constant..pipeline.num_parameter_slots
FlushTables(pipeline, ud, i, num_root_constant, table_start, name, out) ==
    IF i >= pipeline.num_parameter_slots THEN [ud |-> ud, calls |-> out]
    ELSE
      LET table_index == i - num_root_constant + table_start IN
      IF table_index \in ud.dirty_mask
      THEN LET f == FlushTable(pipeline, ud, i, table_index, name, out)
           IN FlushTables(pipeline, f.ud, i + 1, num_root_constant, table_start,
                          name, f.calls)
      ELSE FlushTables(pipeline, ud, i + 1, num_root_constant, table_start, name, out)

\* CommandBuffer::flush_user_data(pipeline, constants_update, table_update):
\* the cache it leaves and the writer calls it makes, in order
flush_user_data(pipeline, constants_name, table_name) ==
    IF pipeline.user_data.dirty_mask = {}
    THEN [val |-> pipeline, calls |-> <<>>]
    ELSE
      LET num_root_constant == Len(pipeline.root_constants)
          c == FlushConstants(pipeline.user_data, pipeline.root_constants, 1, 0,
                              constants_name, <<>>)
          table_start == TableBaseOffset(pipeline.root_constants)
          t == FlushTables(pipeline, c.ud, num_root_constant, num_root_constant,
                           table_start, table_name, c.calls)
      IN [val |-> [pipeline EXCEPT !.user_data = t.ud], calls |-> t.calls]

-----------------------------------------------------------------------------
(* Bind-point switching *)

\* variant of Switch that activates the bind point without SetPipelineState
SwitchKeepPso(cache, bp) ==
    IF active_bindpoint # bp
    THEN IF ~cache.pipeline.some
         THEN [panic |-> TRUE, calls |-> <<>>, pso |-> pso, active |-> active_bindpoint]
         ELSE [panic |-> FALSE, calls |-> <<>>, pso |-> pso, active |-> bp]
    ELSE [panic |-> FALSE, calls |-> <<>>, pso |-> pso, active |-> active_bindpoint]

\* the switch of set_graphics_bind_point / set_compute_bind_point:
\* if self.active_bindpoint != bp { expect a pipeline; SetPipelineState; flip }
Switch(cache, bp) ==
    IF active_bindpoint # bp
    THEN IF ~cache.pipeline.some
         THEN [panic |-> TRUE, calls |-> <<>>, pso |-> pso, active |-> active_bindpoint]
         ELSE [panic |-> FALSE,
               calls |-> << NativeCall("SetPipelineState", cache.pipeline.raw) >>,
               pso |-> cache.pipeline.raw, active |-> bp]
    ELSE [panic |-> FALSE, calls |-> <<>>, pso |-> pso, active |-> active_bindpoint]

\* variant of set_graphics_bind_point that flushes before it switches
FlushThenSwitchGraphics ==
    LET s == Switch(gr_pipeline, "Graphics") IN
    IF s.panic
    THEN [panic |-> TRUE, calls |-> s.calls, pso |-> s.pso, active |-> s.active,
          cache |-> gr_pipeline]
    ELSE
      LET f == flush_user_data(gr_pipeline, "SetGraphicsRoot32BitConstants",
                               "SetGraphicsRootDescriptorTable")
      IN [panic |-> FALSE,
          calls |-> f.calls \o s.calls \o << NativeCall("IASetVertexBuffers", 0) >>,
          pso |-> s.pso, active |-> s.active, cache |-> f.val]

\* CommandBuffer::set_graphics_bind_point
set_graphics_bind_point ==
    LET s == Switch(gr_pipeline, "Graphics") IN
    IF s.panic
    THEN [panic |-> TRUE, calls |-> s.calls, pso |-> s.pso, active |-> s.active,
          cache |-> gr_pipeline]
    ELSE
      LET f == flush_user_data(gr_pipeline, "SetGraphicsRoot32BitConstants",
                               "SetGraphicsRootDescriptorTable")
      IN [panic |-> FALSE,
          calls |-> s.calls \o << NativeCall("IASetVertexBuffers", 0) >> \o f.calls,
          pso |-> s.pso, active |-> s.active, cache |-> f.val]

\* CommandBuffer::set_compute_bind_point
set_compute_bind_point ==
    LET s == Switch(comp_pipeline, "Compute") IN
    IF s.panic
    THEN [panic |-> TRUE, calls |-> s.calls, pso |-> s.pso, active |-> s.active,
          cache |-> comp_pipeline]
    ELSE
      LET f == flush_user_data(comp_pipeline, "SetComputeRoot32BitConstants",
                               "SetComputeRootDescriptorTable")
      IN [panic |-> FALSE, calls |-> s.calls \o f.calls,
          pso |-> s.pso, active |-> s.active, cache |-> f.val]

\* variant of AllDirty that marks only the low 32 registers
AllDirtyLow == 0 .. 31

\* dirty_mask = !0
AllDirty == Regs

\* the match of bind_graphics_pipeline / bind_compute_pipeline on the cached
\* signature, and the store of the new (pipeline, signature) pair
SignatureChanged(cache, pipeline) ==
    ~(cache.pipeline.some /\ cache.pipeline.signature = pipeline.signature)

\* a bind that empties the store and forgets the heap bases on a signature change
BindPipelineCacheEmptied(cache, pipeline) ==
    IF SignatureChanged(cache, pipeline)
    THEN [PipelineCacheNew EXCEPT
            !.num_parameter_slots = pipeline.num_parameter_slots,
            !.root_constants = pipeline.constants,
            !.user_data.dirty_mask = AllDirty,
            !.pipeline = SomePipeline(pipeline.raw, pipeline.signature)]
    ELSE [cache EXCEPT !.pipeline = SomePipeline(pipeline.raw, pipeline.signature)]

BindPipelineCache(cache, pipeline) ==
    IF SignatureChanged(cache, pipeline)
    THEN [cache EXCEPT !.num_parameter_slots = pipeline.num_parameter_slots,
                       !.root_constants = pipeline.constants,
                       !.user_data.dirty_mask = AllDirty,
                       !.pipeline = SomePipeline(pipeline.raw, pipeline.signature)]
    ELSE [cache EXCEPT !.pipeline = SomePipeline(pipeline.raw, pipeline.signature)]

-----------------------------------------------------------------------------
(* The command buffer *)

\* the history of a pass: the cache it began with, the events since, the
\* number of next_subpass calls, and whether end_render_pass closed it
PassLog(pass, events, nexts, ended) ==
    [pass |-> pass, events |-> events, nexts |-> nexts, ended |-> ended]
PassLogNew == PassLog(<< >>, << >>, 0, FALSE)

\* CommandBuffer::new
\* CommandBuffer::new: the fields of a fresh command buffer, its empty list,
\* its live recording thread
CommandBufferNew ==
    [gr_pipeline |-> PipelineCacheNew,
     comp_pipeline |-> PipelineCacheNew,
     active_bindpoint |-> "Graphics",
     copies |-> <<>>,
     pso |-> 0,
     calls |-> <<>>,
     op |-> "new",
     nops |-> 0,
     aborted |-> FALSE,
     written |-> [Graphics |-> {}, Compute |-> {}],
     bound |-> [Graphics |-> 0, Compute |-> 0],
     since |-> [Graphics |-> "changed", Compute |-> "changed"],
     region |-> [image |-> [block_dim |-> <<1, 1>>, bytes_per_block |-> 1, levels |-> 1],
                 regions |-> <<>>],
     produced |-> <<>>,
     pass_cache |-> << >>,
     cur_subpass |-> USIZE_MAX,
     pass_log |-> PassLogNew,
     occlusion_query |-> << >>,
     pipeline_stats_query |-> << >>,
     viewport_cache |-> << >>,
     scissor_cache |-> << >>]

\* the command buffer the fields belong to, as one value
ThisBuffer ==
    [gr_pipeline |-> gr_pipeline,
     comp_pipeline |-> comp_pipeline,
     active_bindpoint |-> active_bindpoint,
     copies |-> copies,
     pso |-> pso,
     calls |-> calls,
     op |-> op,
     nops |-> nops,
     aborted |-> aborted,
     written |-> written,
     bound |-> bound,
     since |-> since,
     region |-> region,
     produced |-> produced,
     pass_cache |-> pass_cache,
     cur_subpass |-> cur_subpass,
     pass_log |-> pass_log,
     occlusion_query |-> occlusion_query,
     pipeline_stats_query |-> pipeline_stats_query,
     viewport_cache |-> viewport_cache,
     scissor_cache |-> scissor_cache]

\* two command buffers, each made by CommandBuffer::new
Init ==
    /\ gr_pipeline = CommandBufferNew.gr_pipeline
    /\ comp_pipeline = CommandBufferNew.comp_pipeline
    /\ active_bindpoint = CommandBufferNew.active_bindpoint
    /\ copies = CommandBufferNew.copies
    /\ pso = CommandBufferNew.pso
    /\ calls = CommandBufferNew.calls
    /\ op = CommandBufferNew.op
    /\ nops = CommandBufferNew.nops
    /\ aborted = CommandBufferNew.aborted
    /\ written = CommandBufferNew.written
    /\ bound = CommandBufferNew.bound
    /\ since = CommandBufferNew.since
    /\ region = CommandBufferNew.region
    /\ produced = CommandBufferNew.produced
    /\ pass_cache = CommandBufferNew.pass_cache
    /\ cur_subpass = CommandBufferNew.cur_subpass
    /\ pass_log = CommandBufferNew.pass_log
    /\ occlusion_query = CommandBufferNew.occlusion_query
    /\ pipeline_stats_query = CommandBufferNew.pipeline_stats_query
    /\ viewport_cache = CommandBufferNew.viewport_cache
    /\ scissor_cache = CommandBufferNew.scissor_cache
    /\ other = CommandBufferNew
    /\ this = 1

\* every operation: the recording thread is alive; the run is bounded
Recording == ~aborted /\ nops < MaxOps

\* an operation that records on the list of the other command buffer as well
DoneSharedList(name, recorded, panicked) ==
    /\ op' = name
    /\ calls' = recorded
    /\ aborted' = panicked
    /\ nops' = nops + 1
    /\ other' = [other EXCEPT !.calls = @ \o recorded]
    /\ this' = this
    /\ UNCHANGED viewVars

\* every operation takes &mut self: it records on the list of its own command
\* buffer and leaves the other command buffer alone
Finish(name, recorded, panicked) ==
    /\ op' = name
    /\ calls' = recorded
    /\ aborted' = panicked
    /\ nops' = nops + 1
    /\ UNCHANGED <<other, this>>

\* an operation other than set_viewports and set_scissors: it does not use the
\* two cached arrays
Done(name, recorded, panicked) ==
    /\ Finish(name, recorded, panicked)
    /\ UNCHANGED viewVars

\* the registers an update of the cache writes: those it marks dirty in a clean store
Clean(cache) == [cache EXCEPT !.user_data.dirty_mask = {}]

\* history of a bind point after a pipeline bind: a bind that keeps the signature
\* after a flush leaves it "rebound", a bind that changes the signature "changed"
AfterBind(h, changed) ==
    IF changed THEN "changed"
    ELSE IF h \in {"flushed", "rebound"} THEN "rebound"
    ELSE "changed"

\* a reset that forgets the two query trackers
ResetKeepTrackers ==
    /\ Recording
    /\ gr_pipeline' = PipelineCacheNew
    /\ comp_pipeline' = PipelineCacheNew
    /\ active_bindpoint' = "Graphics"
    /\ pso' = 0
    /\ written' = [Graphics |-> {}, Compute |-> {}]
    /\ bound' = [Graphics |-> 0, Compute |-> 0]
    /\ since' = [Graphics |-> "changed", Compute |-> "changed"]
    /\ pass_cache' = << >>
    /\ cur_subpass' = USIZE_MAX
    /\ Done("reset", << NativeCall("Reset", 0) >>, FALSE)
    /\ UNCHANGED <<copyVars, pass_log, queryVars>>

\* a reset that leaves the active bind point as it is
ResetKeepBindPoint ==
    /\ Recording
    /\ gr_pipeline' = PipelineCacheNew
    /\ comp_pipeline' = PipelineCacheNew
    /\ active_bindpoint' = active_bindpoint
    /\ pso' = 0
    /\ written' = [Graphics |-> {}, Compute |-> {}]
    /\ bound' = [Graphics |-> 0, Compute |-> 0]
    /\ since' = [Graphics |-> "changed", Compute |-> "changed"]
    /\ pass_cache' = << >>
    /\ cur_subpass' = USIZE_MAX
    /\ occlusion_query' = << >>
    /\ pipeline_stats_query' = << >>
    /\ Done("reset", << NativeCall("Reset", 0) >>, FALSE)
    /\ UNCHANGED <<copyVars, pass_log>>

\* CommandBuffer::reset (RawCommandBuffer::reset and begin call it)
Reset ==
    /\ Recording
    /\ gr_pipeline' = PipelineCacheNew
    /\ comp_pipeline' = PipelineCacheNew
    /\ active_bindpoint' = "Graphics"
    /\ pso' = 0
    /\ written' = [Graphics |-> {}, Compute |-> {}]
    /\ bound' = [Graphics |-> 0, Compute |-> 0]
    /\ since' = [Graphics |-> "changed", Compute |-> "changed"]
    /\ pass_cache' = << >>
    /\ cur_subpass' = USIZE_MAX
    /\ occlusion_query' = << >>
    /\ pipeline_stats_query' = << >>
    /\ Done("reset", << NativeCall("Reset", 0) >>, FALSE)
    \* copies, viewport_cache and scissor_cache are not assigned
    /\ UNCHANGED <<copyVars, viewVars, pass_log>>

\* bind_graphics_pipeline, for a pipeline without vertex strides or baked states
BindGraphicsPipeline(pipeline) ==
    /\ Recording
    /\ gr_pipeline' = BindPipelineCache(gr_pipeline, pipeline)
    /\ active_bindpoint' = "Graphics"
    /\ pso' = pipeline.raw
    /\ bound' = [bound EXCEPT !.Graphics = pipeline.raw]
    /\ since' = [since EXCEPT
                   !.Graphics = AfterBind(@, SignatureChanged(gr_pipeline, pipeline))]
    /\ Done("bind_graphics_pipeline",
            (IF SignatureChanged(gr_pipeline, pipeline)
             THEN << NativeCall("SetGraphicsRootSignature", pipeline.signature) >>
             ELSE << >>)
            \o << NativeCall("SetPipelineState", pipeline.raw),
                  NativeCall("IASetPrimitiveTopology", 0) >>,
            FALSE)
    /\ UNCHANGED <<comp_pipeline, written, copyVars, passVars, queryVars>>

\* bind_compute_pipeline
BindComputePipeline(pipeline) ==
    /\ Recording
    /\ comp_pipeline' = BindPipelineCache(comp_pipeline, pipeline)
    /\ active_bindpoint' = "Compute"
    /\ pso' = pipeline.raw
    /\ bound' = [bound EXCEPT !.Compute = pipeline.raw]
    /\ since' = [since EXCEPT
                   !.Compute = AfterBind(@, SignatureChanged(comp_pipeline, pipeline))]
    /\ Done("bind_compute_pipeline",
            (IF SignatureChanged(comp_pipeline, pipeline)
             THEN << NativeCall("SetComputeRootSignature", pipeline.signature) >>
             ELSE << >>)
            \o << NativeCall("SetPipelineState", pipeline.raw) >>,
            FALSE)
    /\ UNCHANGED <<gr_pipeline, written, copyVars, passVars, queryVars>>

\* bind_graphics_descriptor_sets
BindGraphicsDescriptorSets(layout, first_set, sets) ==
    /\ Recording
    /\ LET b == bind_descriptor_sets(gr_pipeline, layout, first_set, sets)
           w == bind_descriptor_sets(Clean(gr_pipeline), layout, first_set, sets)
       IN /\ gr_pipeline' = b.val
          /\ written' = [written EXCEPT !.Graphics = @ \cup w.val.user_data.dirty_mask]
          /\ Done("bind_graphics_descriptor_sets", b.calls, b.panic)
    /\ since' = [since EXCEPT !.Graphics = "changed"]
    /\ UNCHANGED <<comp_pipeline, active_bindpoint, pso, bound, copyVars, passVars, queryVars>>

\* bind_compute_descriptor_sets
BindComputeDescriptorSets(layout, first_set, sets) ==
    /\ Recording
    /\ LET b == bind_descriptor_sets(comp_pipeline, layout, first_set, sets)
           w == bind_descriptor_sets(Clean(comp_pipeline), layout, first_set, sets)
       IN /\ comp_pipeline' = b.val
          /\ written' = [written EXCEPT !.Compute = @ \cup w.val.user_data.dirty_mask]
          /\ Done("bind_compute_descriptor_sets", b.calls, b.panic)
    /\ since' = [since EXCEPT !.Compute = "changed"]
    /\ UNCHANGED <<gr_pipeline, active_bindpoint, pso, bound, copyVars, passVars, queryVars>>

\* push_graphics_constants
PushGraphicsConstants(layout, offset, constants) ==
    /\ Recording
    /\ LET u == push_constants(gr_pipeline.user_data, layout, offset, constants)
           w == push_constants(Clean(gr_pipeline).user_data, layout, offset, constants)
       IN /\ gr_pipeline' = [gr_pipeline EXCEPT !.user_data = u.val]
          /\ written' = [written EXCEPT !.Graphics = @ \cup w.val.dirty_mask]
          /\ Done("push_graphics_constants", << >>, u.panic)
    /\ since' = [since EXCEPT !.Graphics = "changed"]
    /\ UNCHANGED <<comp_pipeline, active_bindpoint, pso, bound, copyVars, passVars, queryVars>>

\* push_compute_constants
PushComputeConstants(layout, offset, constants) ==
    /\ Recording
    /\ LET u == push_constants(comp_pipeline.user_data, layout, offset, constants)
           w == push_constants(Clean(comp_pipeline).user_data, layout, offset, constants)
       IN /\ comp_pipeline' = [comp_pipeline EXCEPT !.user_data = u.val]
          /\ written' = [written EXCEPT !.Compute = @ \cup w.val.dirty_mask]
          /\ Done("push_compute_constants", << >>, u.panic)
    /\ since' = [since EXCEPT !.Compute = "changed"]
    /\ UNCHANGED <<gr_pipeline, active_bindpoint, pso, bound, copyVars, passVars, queryVars>>

\* draw: set_graphics_bind_point, then DrawInstanced
Draw ==
    /\ Recording
    /\ LET s == set_graphics_bind_point IN
       /\ gr_pipeline' = s.cache
       /\ active_bindpoint' = s.active
       /\ pso' = s.pso
       /\ written' = IF s.panic THEN written ELSE [written EXCEPT !.Graphics = {}]
       /\ since' = IF s.panic THEN since ELSE [since EXCEPT !.Graphics = "flushed"]
       /\ Done("draw",
               IF s.panic THEN s.calls
               ELSE s.calls \o << NativeCall("DrawInstanced", 0) >>,
               s.panic)
    /\ UNCHANGED <<comp_pipeline, bound, copyVars, passVars, queryVars>>

\* dispatch: set_compute_bind_point, then Dispatch
Dispatch ==
    /\ Recording
    /\ LET s == set_compute_bind_point IN
       /\ comp_pipeline' = s.cache
       /\ active_bindpoint' = s.active
       /\ pso' = s.pso
       /\ written' = IF s.panic THEN written ELSE [written EXCEPT !.Compute = {}]
       /\ since' = IF s.panic THEN since ELSE [since EXCEPT !.Compute = "flushed"]
       /\ Done("dispatch",
               IF s.panic THEN s.calls
               ELSE s.calls \o << NativeCall("Dispatch", 0) >>,
               s.panic)
    /\ UNCHANGED <<gr_pipeline, bound, copyVars, passVars, queryVars>>

Next ==
    \/ Reset
    \/ \E p \in GraphicsPipelines : BindGraphicsPipeline(p)
    \/ \E p \in ComputePipelines : BindComputePipeline(p)
    \/ \E r \in SetRequests : BindGraphicsDescriptorSets(r.layout, r.first_set, r.sets)
    \/ \E r \in SetRequests : BindComputeDescriptorSets(r.layout, r.first_set, r.sets)
    \/ \E r \in PushRequests : PushGraphicsConstants(r.layout, r.offset, r.constants)
    \/ \E r \in PushRequests : PushComputeConstants(r.layout, r.offset, r.constants)
    \/ Draw
    \/ Dispatch

Spec == Init /\ [][Next]_vars

-----------------------------------------------------------------------------
(* Copy-region splitter: split_buffer_copy and the two copy commands *)
(* The inputs keep every quantity far below 2^31, so none of the u32/i32  *)
(* casts of the splitter wraps or truncates.                              *)

D3D12_TEXTURE_DATA_PITCH_ALIGNMENT == 256
D3D12_TEXTURE_DATA_PLACEMENT_ALIGNMENT == 512

\* image::Extent, image::Offset
Extent(w, h, d) == [width |-> w, height |-> h, depth |-> d]
Offset(x, y, z) == [x |-> x, y |-> y, z |-> z]
OffsetZERO == Offset(0, 0, 0)

\* struct Copy
Copy(footprint_offset, footprint, row_pitch, img_subresource, img_offset, buf_offset, copy_extent) ==
    [footprint_offset |-> footprint_offset,
     footprint        |-> footprint,
     row_pitch        |-> row_pitch,
     img_subresource  |-> img_subresource,
     img_offset       |-> img_offset,
     buf_offset       |-> buf_offset,
     copy_extent      |-> copy_extent]

\* n::Image, the metadata the splitter reads
Image(block_dim, bytes_per_block, levels) ==
    [block_dim |-> block_dim, bytes_per_block |-> bytes_per_block, levels |-> levels]

\* com::BufferImageCopy; layers is the half-open range [layer_start, layer_end)
BufferImageCopy(buffer_offset, buffer_width, buffer_height, level, layer_start, layer_end, image_offset, image_extent) ==
    [buffer_offset |-> buffer_offset,
     buffer_width  |-> buffer_width,
     buffer_height |-> buffer_height,
     image_layers  |-> [level |-> level,
                        layers |-> [start |-> layer_start, end |-> layer_end]],
     image_offset  |-> image_offset,
     image_extent  |-> image_extent]

\* Image::calc_subresource: mip levels vary fastest, then array layers (one plane)
calc_subresource(image, level, layer, plane) == level + layer * image.levels

\* fn div: assert_eq!(a % b, 0); a / b
div(a, b) == IF b = 0 \/ a % b # 0 THEN Panic(0) ELSE Ok(a \div b)

\* variant of AlignDown that keeps the offset as it is
AlignDownKeep(offset) == offset

\* offset & !(D3D12_TEXTURE_DATA_PLACEMENT_ALIGNMENT - 1)
AlignDown(offset) == offset - (offset % D3D12_TEXTURE_DATA_PLACEMENT_ALIGNMENT)

\* the layer's byte offset in the buffer, as split_buffer_copy computes it
LayerOffset(r, layer, slice_pitch) ==
    r.buffer_offset + layer * slice_pitch * r.image_extent.depth

\* trivial case: everything is aligned
CaseA(r, img_subresource, aligned_offset, row_pitch) ==
    << Copy(aligned_offset, r.image_extent, row_pitch, img_subresource,
            r.image_offset, OffsetZERO, r.image_extent) >>

\* buffer offset is not aligned, the pitch is
CaseB(r, image, img_subresource, layer_offset, aligned_offset, row_pitch, slice_pitch) ==
    IF image.block_dim # <<1, 1>> THEN Panic(<<>>)
    ELSE IF row_pitch = 0 \/ slice_pitch = 0 THEN Panic(<<>>)  \* remainder by zero
    ELSE
      LET row_pitch_texels == row_pitch \div image.bytes_per_block
          gap == layer_offset - aligned_offset
          buf_offset == Offset(gap % row_pitch,
                               (gap % slice_pitch) \div row_pitch,
                               gap \div slice_pitch)
          e == r.image_extent
          footprint == Extent(buf_offset.x + e.width,
                              buf_offset.y + e.height,
                              buf_offset.z + e.depth)
      IN IF e.width + buf_offset.x <= row_pitch_texels
         THEN Ok(<< Copy(aligned_offset, footprint, row_pitch, img_subresource,
                         r.image_offset, buf_offset, e) >>)
         ELSE IF ~(buf_offset.x <= row_pitch_texels) THEN Panic(<<>>)
         ELSE
           LET half == row_pitch_texels - buf_offset.x
           IN IF ~(half <= e.width) THEN Panic(<<>>)
              ELSE Ok(<< Copy(aligned_offset,
                              [footprint EXCEPT !.width = row_pitch_texels],
                              row_pitch, img_subresource, r.image_offset,
                              buf_offset,
                              [e EXCEPT !.width = half]),
                         Copy(aligned_offset,
                              Extent(e.width - half, footprint.height + 1,
                                     footprint.depth),
                              row_pitch, img_subresource,
                              [r.image_offset EXCEPT !.x = r.image_offset.x + half],
                              [buf_offset EXCEPT !.x = 0],
                              [e EXCEPT !.width = e.width - half]) >>)

\* (max_unaligned_pitch | D3D12_TEXTURE_DATA_PITCH_ALIGNMENT) + 1
UnalignedRowPitch(max_unaligned_pitch) ==
    (IF (max_unaligned_pitch \div D3D12_TEXTURE_DATA_PITCH_ALIGNMENT) % 2 = 1
     THEN max_unaligned_pitch
     ELSE max_unaligned_pitch + D3D12_TEXTURE_DATA_PITCH_ALIGNMENT) + 1

\* variant of Leftover that takes the whole row again
LeftoverWhole(width, cut_width) == width

\* the part of a row left after the cut at the next placement boundary
Leftover(width, cut_width) == width - cut_width

\* worst case, one (z, y) iteration of the row by row loop
CaseCRow(r, image, img_subresource, layer_offset, row_pitch, slice_pitch, z, y) ==
    LET e == r.image_extent
        row_offset == layer_offset + z * slice_pitch + y * row_pitch
        aligned_offset == AlignDown(row_offset)
        next_aligned_offset == aligned_offset + D3D12_TEXTURE_DATA_PLACEMENT_ALIGNMENT
        cut_row_texels == (next_aligned_offset - row_offset) \div image.bytes_per_block
        cut_width == Min(e.width, cut_row_texels)
        gap_texels == (row_offset - aligned_offset) \div image.bytes_per_block
        max_unaligned_pitch == e.width * image.bytes_per_block
        pitch == UnalignedRowPitch(max_unaligned_pitch)
        leftover == Leftover(e.width, cut_width)
    IN << Copy(aligned_offset, Extent(cut_width + gap_texels, 1, 1), pitch,
               img_subresource,
               Offset(r.image_offset.x, r.image_offset.y + y, r.image_offset.z + z),
               Offset(gap_texels, 0, 0),
               Extent(cut_width, 1, 1)) >>
       \o (IF cut_width = e.width THEN << >>
           ELSE << Copy(next_aligned_offset, Extent(leftover, 1, 1), pitch,
                        img_subresource,
                        Offset(r.image_offset.x + cut_width, r.image_offset.y + y,
                               r.image_offset.z + z),
                        OffsetZERO,
                        Extent(leftover, 1, 1)) >>)

\* worst case: row by row copy, for z in 0..depth, for y in 0..height
CaseC(r, image, img_subresource, layer_offset, row_pitch, slice_pitch) ==
    IF image.block_dim # <<1, 1>> THEN Panic(<<>>)
    ELSE
      LET h == r.image_extent.height
          n == r.image_extent.depth * h
          rows[k \in 0..n] ==
              IF k = n THEN << >>
              ELSE CaseCRow(r, image, img_subresource, layer_offset, row_pitch,
                            slice_pitch, k \div h, k % h) \o rows[k + 1]
      IN Ok(rows[0])

\* one iteration of the loop over r.image_layers.layers
SplitLayer(r, image, layer, row_pitch, slice_pitch) ==
    LET img_subresource == calc_subresource(image, r.image_layers.level, layer, 0)
        layer_offset == LayerOffset(r, layer, slice_pitch)
        aligned_offset == AlignDown(layer_offset)
        is_pitch_aligned == row_pitch % D3D12_TEXTURE_DATA_PITCH_ALIGNMENT = 0
    IN IF layer_offset = aligned_offset /\ is_pitch_aligned
       THEN Ok(CaseA(r, img_subresource, aligned_offset, row_pitch))
       ELSE IF is_pitch_aligned
       THEN CaseB(r, image, img_subresource, layer_offset, aligned_offset,
                  row_pitch, slice_pitch)
       ELSE CaseC(r, image, img_subresource, layer_offset, row_pitch, slice_pitch)

RECURSIVE SplitLayersFrom(_, _, _, _, _)
\* the loop over the layers from `layer`; val: the Copy lists, one per layer done
SplitLayersFrom(r, image, layer, row_pitch, slice_pitch) ==
    IF layer >= r.image_layers.layers.end THEN Ok(<< >>)
    ELSE LET s == SplitLayer(r, image, layer, row_pitch, slice_pitch)
         IN IF s.panic THEN Panic(<< >>)
            ELSE LET rest == SplitLayersFrom(r, image, layer + 1, row_pitch, slice_pitch)
                 IN [val |-> << s.val >> \o rest.val, panic |-> rest.panic]

\* the row pitch and slice pitch of a region, in bytes
RowPitch(r, image) ==
    LET buffer_width == IF r.buffer_width = 0 THEN r.image_extent.width
                        ELSE r.buffer_width
        d == div(buffer_width, image.block_dim[1])
    IN [val |-> d.val * image.bytes_per_block, panic |-> d.panic]
SlicePitch(r, image, row_pitch) ==
    LET buffer_height == IF r.buffer_height = 0 THEN r.image_extent.height
                         ELSE r.buffer_height
        d == div(buffer_height, image.block_dim[2])
    IN [val |-> d.val * row_pitch, panic |-> d.panic]

RECURSIVE Flatten(_)
Flatten(ss) == IF ss = << >> THEN << >> ELSE Head(ss) \o Flatten(Tail(ss))

\* split_buffer_copy: val is the Copy lists it pushed, one per layer it finished
split_buffer_copy(r, image) ==
    LET rp == RowPitch(r, image)
    IN IF rp.panic THEN Panic(<< >>)
       ELSE LET sp == SlicePitch(r, image, rp.val)
            IN IF sp.panic THEN Panic(<< >>)
               ELSE SplitLayersFrom(r, image, r.image_layers.layers.start,
                                    rp.val, sp.val)

RECURSIVE SplitRegions(_, _)
\* for region in regions { split_buffer_copy(&mut self.copies, r, image) };
\* val: per region, per layer, the Copy entries pushed
SplitRegions(regions, image) ==
    IF regions = << >> THEN Ok(<< >>)
    ELSE LET s == split_buffer_copy(Head(regions), image)
         IN IF s.panic THEN Panic(<< s.val >>)
            ELSE LET rest == SplitRegions(Tail(regions), image)
                 IN [val |-> << s.val >> \o rest.val, panic |-> rest.panic]

\* D3D12_TEXTURE_COPY_LOCATION::Type
D3D12_TEXTURE_COPY_TYPE_SUBRESOURCE_INDEX == 0
D3D12_TEXTURE_COPY_TYPE_PLACED_FOOTPRINT == 1

\* D3D12_BOX of `extent` at `offset`: left, top, front, right, bottom, back
Box(offset, extent) ==
    << offset.x, offset.y, offset.z,
       offset.x + extent.width, offset.y + extent.height, offset.z + extent.depth >>

\* D3D12_PLACED_SUBRESOURCE_FOOTPRINT of a Copy: Offset, Width, Height, Depth,
\* RowPitch
PlacedFootprint(c) ==
    << c.footprint_offset, c.footprint.width, c.footprint.height,
       c.footprint.depth, c.row_pitch >>

\* CopyTextureRegion(dst, x, y, z, src, src_box), recorded as the type of dst
\* and the numbers: subresource index, x, y, z, placed footprint, source box
CopyTextureRegion(dst_type, subresource, at, footprint, src_box) ==
    [call |-> "CopyTextureRegion", slot |-> 0,
     data |-> << subresource, at.x, at.y, at.z >> \o footprint \o src_box,
     regs |-> << >>, arg |-> dst_type]

\* the native call of one drained Copy, buffer to image / image to buffer
BufferToImageCall(c) ==
    CopyTextureRegion(D3D12_TEXTURE_COPY_TYPE_SUBRESOURCE_INDEX, c.img_subresource,
                      c.img_offset, PlacedFootprint(c),
                      Box(c.buf_offset, c.copy_extent))
ImageToBufferCall(c) ==
    CopyTextureRegion(D3D12_TEXTURE_COPY_TYPE_PLACED_FOOTPRINT, c.img_subresource,
                      c.buf_offset, PlacedFootprint(c),
                      Box(c.img_offset, c.copy_extent))

RECURSIVE Drain(_, _)
\* for c in self.copies.drain(..): one native call per Copy, in order
Drain(name, cs) ==
    IF cs = << >> THEN << >>
    ELSE << IF name = "copy_buffer_to_image" THEN BufferToImageCall(Head(cs))
            ELSE ImageToBufferCall(Head(cs)) >>
         \o Drain(name, Tail(cs))

\* what a copy command does to the scratch list: the assert that it is empty,
\* the split of every region into it, and whether an assert stopped the command
SplitInto(scratch, image, regions) ==
    LET s == SplitRegions(regions, image)
    IN [pushed |-> scratch \o Flatten(Flatten(s.val)),
        layers |-> s.val,
        panic  |-> scratch # << >> \/ s.panic]

\* variant of copy_buffer_to_image that reads the scratch list and leaves it filled
CopyBufferToImageKeep(image, regions) ==
    /\ Recording
    /\ LET s == SplitInto(copies, image, regions)
       IN /\ copies' = s.pushed
          /\ produced' = IF s.panic THEN << >> ELSE s.layers
          /\ Done("copy_buffer_to_image",
                  IF s.panic THEN << >>
                  ELSE Drain("copy_buffer_to_image", s.pushed),
                  s.panic)
    /\ region' = [image |-> image, regions |-> regions]
    /\ UNCHANGED <<bindVars, passVars, queryVars>>

\* copy_buffer_to_image: the placed footprint is the source
CopyBufferToImage(image, regions) ==
    /\ Recording
    /\ LET s == SplitInto(copies, image, regions)
       IN /\ copies' = IF s.panic THEN s.pushed ELSE << >>
          /\ produced' = IF s.panic THEN << >> ELSE s.layers
          /\ Done("copy_buffer_to_image",
                  IF s.panic THEN << >>
                  ELSE Drain("copy_buffer_to_image", s.pushed),
                  s.panic)
    /\ region' = [image |-> image, regions |-> regions]
    /\ UNCHANGED <<bindVars, passVars, queryVars>>

\* copy_image_to_buffer: the placed footprint is the destination
CopyImageToBuffer(image, regions) ==
    /\ Recording
    /\ LET s == SplitInto(copies, image, regions)
       IN /\ copies' = IF s.panic THEN s.pushed ELSE << >>
          /\ produced' = IF s.panic THEN << >> ELSE s.layers
          /\ Done("copy_image_to_buffer",
                  IF s.panic THEN << >>
                  ELSE Drain("copy_image_to_buffer", s.pushed),
                  s.panic)
    /\ region' = [image |-> image, regions |-> regions]
    /\ UNCHANGED <<bindVars, passVars, queryVars>>

\* Images: one byte per texel; four bytes per texel with two mip levels;
\* a block-compressed format of 4x4 blocks of eight bytes
ImageR8 == Image(<<1, 1>>, 1, 1)
ImageRgba8 == Image(<<1, 1>>, 4, 2)
ImageBc1 == Image(<<4, 4>>, 8, 1)

CopyRequest(image, regions) == [image |-> image, regions |-> regions]

\* aligned offset and pitch: 64x64x1 at offset 0
RegionAligned ==
    BufferImageCopy(0, 0, 0, 0, 0, 1, Offset(0, 0, 0), Extent(64, 64, 1))
\* aligned, two layers of 1024 bytes each from offset 512, into level 1
RegionAlignedLayers ==
    BufferImageCopy(512, 0, 0, 1, 0, 2, Offset(8, 4, 0), Extent(64, 4, 1))
\* aligned, the single layer 1
RegionLayerOne ==
    BufferImageCopy(0, 0, 0, 0, 1, 2, Offset(0, 0, 0), Extent(64, 2, 1))
\* aligned, rows and slices of the buffer longer than the extent
RegionAlignedPadded ==
    BufferImageCopy(1024, 256, 4, 0, 0, 1, Offset(0, 0, 0), Extent(100, 2, 2))
\* pitch aligned, offset not: the row still fits the pitch
RegionShifted ==
    BufferImageCopy(778, 256, 4, 0, 0, 1, Offset(3, 0, 0), Extent(100, 2, 1))
\* pitch aligned, offset not: the row crosses the pitch and is split
RegionShiftedSplit ==
    BufferImageCopy(100, 0, 0, 0, 0, 1, Offset(0, 0, 0), Extent(256, 1, 1))
\* the same with four bytes per texel
RegionShiftedSplitWide ==
    BufferImageCopy(4, 0, 0, 0, 0, 1, Offset(0, 0, 0), Extent(64, 1, 1))
RegionShiftedFar ==
    BufferImageCopy(100, 0, 0, 0, 0, 1, Offset(0, 0, 0), Extent(64, 1, 1))
\* pitch not aligned: rows of 100 bytes, the sixth crosses byte 512
RegionRows ==
    BufferImageCopy(0, 0, 0, 0, 0, 1, Offset(2, 1, 0), Extent(100, 6, 1))
\* pitch not aligned, two slices, two layers
RegionRowsDeep ==
    BufferImageCopy(500, 0, 0, 0, 0, 2, Offset(0, 0, 1), Extent(10, 2, 2))
\* pitch not aligned, four bytes per texel
RegionRowsWide ==
    BufferImageCopy(8, 0, 0, 1, 0, 1, Offset(0, 0, 0), Extent(3, 2, 1))
\* no layers; no width
RegionNoLayers ==
    BufferImageCopy(0, 0, 0, 0, 0, 0, Offset(0, 0, 0), Extent(4, 4, 1))
RegionEmptyShifted ==
    BufferImageCopy(4, 0, 0, 0, 0, 1, Offset(0, 0, 0), Extent(0, 4, 1))
\* block-compressed: aligned; offset not aligned; width not a multiple of the block
RegionBlocks ==
    BufferImageCopy(0, 0, 0, 0, 0, 1, Offset(0, 0, 0), Extent(128, 4, 1))
RegionBlocksShifted ==
    BufferImageCopy(8, 0, 0, 0, 0, 1, Offset(0, 0, 0), Extent(128, 4, 1))
RegionBlocksRagged ==
    BufferImageCopy(0, 0, 0, 0, 0, 1, Offset(0, 0, 0), Extent(6, 4, 1))

CopyRequests ==
    { CopyRequest(ImageR8, << >>),
      CopyRequest(ImageR8, << RegionNoLayers >>),
      CopyRequest(ImageR8, << RegionEmptyShifted >>),
      CopyRequest(ImageR8, << RegionAlignedPadded >>),
      CopyRequest(ImageR8, << RegionShifted >>),
      CopyRequest(ImageR8, << RegionShiftedSplit >>),
      CopyRequest(ImageR8, << RegionRows >>),
      CopyRequest(ImageR8, << RegionRowsDeep >>),
      CopyRequest(ImageR8, << RegionShifted, RegionRows >>),
      CopyRequest(ImageR8, << RegionRows, RegionEmptyShifted >>),
      CopyRequest(ImageRgba8, << RegionAligned >>),
      CopyRequest(ImageRgba8, << RegionAlignedLayers >>),
      CopyRequest(ImageRgba8, << RegionLayerOne >>),
      CopyRequest(ImageRgba8, << RegionShiftedSplitWide >>),
      CopyRequest(ImageRgba8, << RegionShiftedFar >>),
      CopyRequest(ImageRgba8, << RegionRowsWide >>),
      CopyRequest(ImageRgba8, << RegionAligned, RegionAlignedLayers >>),
      CopyRequest(ImageBc1, << RegionBlocks >>),
      CopyRequest(ImageBc1, << RegionBlocksShifted >>),
      CopyRequest(ImageBc1, << RegionBlocksRagged >>) }

NextCopy ==
    \/ Reset
    \/ \E q \in CopyRequests : CopyBufferToImage(q.image, q.regions)
    \/ \E q \in CopyRequests : CopyImageToBuffer(q.image, q.regions)

SpecCopy == Init /\ [][NextCopy]_vars

-----------------------------------------------------------------------------
(* The render pass engine: begin_render_pass, next_subpass, end_render_pass *)

\* pass::AttachmentLoadOp, as far as the engine looks at it
AttachmentLoadOps == {"Load", "Clear", "DontCare"}

\* pass::Attachment: the load operations of an attachment
Attachment(load, stencil_load) == [ops_load |-> load, stencil_ops_load |-> stencil_load]

\* pass::AttachmentRef: (attachment id, layout)
AttachmentRef(id, layout) == <<id, layout>>

\* n::BarrierDesc: a state transition of one attachment
BarrierDesc(id, start, end) == [attachment_id |-> id, start |-> start, end |-> end]

\* n::SubpassDesc; the optional depth-stencil reference is a list of at most one
SubpassDesc(color, depth_stencil, input, pre) ==
    [color_attachments |-> color, depth_stencil_attachment |-> depth_stencil,
     input_attachments |-> input, pre_barriers |-> pre]

\* n::RenderPass
RenderPass(attachments, subpasses, post) ==
    [attachments |-> attachments, subpasses |-> subpasses, post_barriers |-> post]

\* n::ImageView, as far as the engine looks at it
ImageView(resource, rtv, dsv) == [resource |-> resource, handle_rtv |-> rtv, handle_dsv |-> dsv]

\* n::Framebuffer
Framebuffer(views) == [attachments |-> views]

\* com::ClearValueRaw, a union read as a colour or as a depth and a stencil value
ClearValueRaw(color, depth, stencil) == [color |-> color, depth |-> depth, stencil |-> stencil]

AttachmentClear(subpass_id, value, stencil_value) ==
    [subpass_id |-> subpass_id, value |-> value, stencil_value |-> stencil_value]

RenderPassCache(render_pass, framebuffer, attachment_clears) ==
    [render_pass |-> render_pass, framebuffer |-> framebuffer,
     attachment_clears |-> attachment_clears]

\* the elements of a list
Range(s) == { s[k] : k \in DOMAIN s }

\* SubpassDesc::is_using: the subpass names attachment i as a colour, depth-stencil
\* or input attachment
is_using(sp, i) ==
    \E ref \in Range(sp.color_attachments) \cup Range(sp.depth_stencil_attachment)
               \cup Range(sp.input_attachments) : ref[1] = i

\* subpasses.iter().position(|sp| sp.is_using(i))
FirstUse(subpasses, i) ==
    LET using == { k \in DOMAIN subpasses : is_using(subpasses[k], i) }
    IN IF using = {} THEN None
       ELSE Some((CHOOSE k \in using : \A m \in using : k <= m) - 1)

\* an event of the history of a pass
PassEvent(kind, at, from, attachment, barriers) ==
    [kind |-> kind, at |-> at, from |-> from, attachment |-> attachment, barriers |-> barriers]

\* the native ResourceBarrier call of a list of transitions: per transition the
\* resource and the states before and after
RECURSIVE TransitionData(_, _)
TransitionData(framebuffer, barriers) ==
    IF barriers = << >> THEN << >>
    ELSE << framebuffer.attachments[Head(barriers).attachment_id + 1].resource,
            Head(barriers).start, Head(barriers).end >>
         \o TransitionData(framebuffer, Tail(barriers))

ResourceBarrierCall(data, count) ==
    [call |-> "ResourceBarrier", slot |-> 0, data |-> data, regs |-> << >>, arg |-> count]

\* variant of EmitBarriers that records the native call for an empty list too
EmitBarriersAlways(framebuffer, barriers) ==
    << ResourceBarrierCall(TransitionData(framebuffer, barriers), Len(barriers)) >>

\* the native call of a barrier insertion: none for an empty list
EmitBarriers(framebuffer, barriers) ==
    IF barriers # << >>
    THEN << ResourceBarrierCall(TransitionData(framebuffer, barriers), Len(barriers)) >>
    ELSE << >>

\* variant of ProtoBarriers that takes the post-barriers at every insertion
ProtoBarriersPost(render_pass, cur) == "post"

\* subpasses.get(cur_subpass): the subpass's pre-barriers, or the post-barriers
ProtoBarriers(render_pass, cur) ==
    IF cur < Len(render_pass.subpasses) THEN "pre" ELSE "post"

\* insert_subpass_barriers, for a pass cache that is Some
insert_subpass_barriers(state, cur) ==
    LET from == ProtoBarriers(state.render_pass, cur)
        proto_barriers == IF from = "pre"
                          THEN state.render_pass.subpasses[cur + 1].pre_barriers
                          ELSE state.render_pass.post_barriers
        panic == \E b \in Range(proto_barriers) :
                    b.attachment_id >= Len(state.framebuffer.attachments)
    IN [panic |-> panic,
        calls |-> IF panic THEN << >> ELSE EmitBarriers(state.framebuffer, proto_barriers),
        events |-> << PassEvent("barriers", cur, from, 0, proto_barriers) >>]

D3D12_CLEAR_FLAG_DEPTH == 1
D3D12_CLEAR_FLAG_STENCIL == 2

\* clear_render_target_view with the one target rectangle
ClearRenderTargetView(rtv, color) ==
    [call |-> "ClearRenderTargetView", slot |-> rtv, data |-> << color >>,
     regs |-> << >>, arg |-> 1]

\* clear_depth_stencil_view with the one target rectangle: the flags say which of
\* the two values is present, an absent value is passed as its default
ClearDepthStencilView(dsv, depth, stencil) ==
    [call |-> "ClearDepthStencilView", slot |-> dsv,
     data |-> << (IF depth # << >> THEN D3D12_CLEAR_FLAG_DEPTH ELSE 0)
                   + (IF stencil.some THEN D3D12_CLEAR_FLAG_STENCIL ELSE 0),
                 IF depth # << >> THEN depth[1] ELSE 0,
                 IF stencil.some THEN stencil.ptr ELSE 0 >>,
     regs |-> << >>, arg |-> 1]

\* variant of ClearsNow that clears an attachment at every subpass using it
ClearsNowUsing(state, clear, i, cur) ==
    cur < Len(state.render_pass.subpasses)
    /\ is_using(state.render_pass.subpasses[cur + 1], i - 1)

\* the clear plan of attachment i names the current subpass
ClearsNow(state, clear, i, cur) == clear.subpass_id = Some(cur)

\* the clears of one attachment (i counts from 1) at the current subpass
ClearAttachment(state, i, cur) ==
    LET view == state.framebuffer.attachments[i]
        clear == state.attachment_clears[i]
        depth == IF clear.value # << >> THEN << clear.value[1].depth >> ELSE << >>
        rtv == view.handle_rtv.some /\ clear.value # << >>
        dsv == view.handle_dsv.some /\ (depth # << >> \/ clear.stencil_value.some)
    IN IF ~ClearsNow(state, clear, i, cur) THEN [calls |-> << >>, events |-> << >>]
       ELSE [calls |->
               (IF rtv THEN << ClearRenderTargetView(view.handle_rtv.ptr, clear.value[1].color) >>
                ELSE << >>)
               \o (IF dsv
                   THEN << ClearDepthStencilView(view.handle_dsv.ptr, depth, clear.stencil_value) >>
                   ELSE << >>),
             events |->
               (IF rtv THEN << PassEvent("clear_rtv", cur, "clear", i - 1, << >>) >> ELSE << >>)
               \o (IF dsv THEN << PassEvent("clear_dsv", cur, "clear", i - 1, << >>) >>
                   ELSE << >>)]

\* the loop over framebuffer.attachments zipped with attachment_clears, from i on
RECURSIVE ClearsFrom(_, _, _)
ClearsFrom(state, i, cur) ==
    IF i > Len(state.framebuffer.attachments) \/ i > Len(state.attachment_clears)
    THEN [calls |-> << >>, events |-> << >>]
    ELSE LET c == ClearAttachment(state, i, cur)
             rest == ClearsFrom(state, i + 1, cur)
         IN [calls |-> c.calls \o rest.calls, events |-> c.events \o rest.events]

OMSetRenderTargets(color_views, ds_view) ==
    [call |-> "OMSetRenderTargets", slot |-> 0, data |-> color_views, regs |-> << >>,
     arg |-> ds_view]

\* bind_targets, for a pass cache that is Some: the index and the unwraps that
\* panic, the render targets, then the clears
bind_targets(state, cur) ==
    IF cur >= Len(state.render_pass.subpasses)
    THEN [panic |-> TRUE, calls |-> << >>, events |-> << >>]
    ELSE
      LET subpass == state.render_pass.subpasses[cur + 1]
          views == state.framebuffer.attachments
          Bad(ref) == ref[1] >= Len(views)
          panic ==
            \/ \E ref \in Range(subpass.color_attachments) :
                  Bad(ref) \/ ~views[ref[1] + 1].handle_rtv.some
            \/ \E ref \in Range(subpass.depth_stencil_attachment) :
                  Bad(ref) \/ ~views[ref[1] + 1].handle_dsv.some
          color_views == [k \in DOMAIN subpass.color_attachments |->
                            views[subpass.color_attachments[k][1] + 1].handle_rtv.ptr]
          ds_view == IF subpass.depth_stencil_attachment = << >> THEN 0
                     ELSE views[subpass.depth_stencil_attachment[1][1] + 1].handle_dsv.ptr
          clears == ClearsFrom(state, 1, cur)
      IN IF panic THEN [panic |-> TRUE, calls |-> << >>, events |-> << >>]
         ELSE [panic |-> FALSE,
               calls |-> << OMSetRenderTargets(color_views, ds_view) >> \o clears.calls,
               events |-> clears.events]

RECURSIVE AttachmentClearsEvery(_, _, _)
\* variant of AttachmentClearsFrom that takes a clear value for every attachment
AttachmentClearsEvery(render_pass, i, clear_iter) ==
    IF i > Len(render_pass.attachments) THEN [val |-> << >>, panic |-> FALSE]
    ELSE
      LET attachment == render_pass.attachments[i]
      IN IF clear_iter = << >> THEN [val |-> << >>, panic |-> TRUE]
         ELSE
           LET cv == << Head(clear_iter) >>
               rest == AttachmentClearsEvery(render_pass, i + 1, Tail(clear_iter))
               clear == AttachmentClear(
                          FirstUse(render_pass.subpasses, i - 1),
                          IF attachment.ops_load = "Clear" THEN cv ELSE << >>,
                          IF attachment.stencil_ops_load = "Clear"
                          THEN Some(cv[1].stencil) ELSE None)
           IN [val |-> << clear >> \o rest.val, panic |-> rest.panic]

\* the clear plan of begin_render_pass_raw from attachment i (counting from 1)
\* on: an attachment with a clear load operation takes the next clear value
RECURSIVE AttachmentClearsFrom(_, _, _)
AttachmentClearsFrom(render_pass, i, clear_iter) ==
    IF i > Len(render_pass.attachments) THEN [val |-> << >>, panic |-> FALSE]
    ELSE
      LET attachment == render_pass.attachments[i]
          takes == attachment.ops_load = "Clear" \/ attachment.stencil_ops_load = "Clear"
      IN IF takes /\ clear_iter = << >> THEN [val |-> << >>, panic |-> TRUE]
         ELSE
           LET cv == IF takes THEN << Head(clear_iter) >> ELSE << >>
               rest == AttachmentClearsFrom(render_pass, i + 1,
                                            IF takes THEN Tail(clear_iter) ELSE clear_iter)
               clear == AttachmentClear(
                          FirstUse(render_pass.subpasses, i - 1),
                          IF attachment.ops_load = "Clear" THEN cv ELSE << >>,
                          IF attachment.stencil_ops_load = "Clear"
                          THEN Some(cv[1].stencil) ELSE None)
           IN [val |-> << clear >> \o rest.val, panic |-> rest.panic]

\* the two asserts at the head of begin_render_pass_raw
BeginAsserts(render_pass, framebuffer) ==
    /\ Len(framebuffer.attachments) = Len(render_pass.attachments)
    /\ ~\E sp \in Range(render_pass.subpasses) :
          \E aref \in Range(sp.color_attachments) \cup Range(sp.depth_stencil_attachment)
                      \cup Range(sp.input_attachments) : aref[2] = "Present"

\* variant of EnterSubpass that binds the targets without inserting barriers
EnterSubpassNoBarriers(state, cur) ==
    LET t == bind_targets(state, cur)
    IN [panic |-> t.panic, calls |-> t.calls, events |-> t.events]

\* insert_subpass_barriers(); bind_targets(): the tail of begin_render_pass_raw
\* and of next_subpass
EnterSubpass(state, cur) ==
    LET b == insert_subpass_barriers(state, cur)
        t == bind_targets(state, cur)
    IN IF b.panic THEN b
       ELSE [panic |-> t.panic, calls |-> b.calls \o t.calls, events |-> b.events \o t.events]

\* begin_render_pass_raw
BeginRenderPass(render_pass, framebuffer, clear_values) ==
    /\ Recording
    /\ LET plan == AttachmentClearsFrom(render_pass, 1, clear_values)
       IN IF ~BeginAsserts(render_pass, framebuffer) \/ plan.panic
          THEN /\ Done("begin_render_pass", << >>, TRUE)
               /\ UNCHANGED passVars
          ELSE LET state == RenderPassCache(render_pass, framebuffer, plan.val)
                   e == EnterSubpass(state, 0)
               IN /\ pass_cache' = << state >>
                  /\ cur_subpass' = 0
                  /\ pass_log' = PassLog(<< state >>, e.events, 0, FALSE)
                  /\ Done("begin_render_pass", e.calls, e.panic)
    /\ UNCHANGED <<bindVars, copyVars, queryVars>>

\* next_subpass; the increment of a cur_subpass of !0 overflows: a panic of a
\* checked build, a wrap to 0 of an unchecked one, where the unwrap of the
\* absent pass cache panics
NextSubpass ==
    /\ Recording
    /\ IF cur_subpass = USIZE_MAX \/ pass_cache = << >>
       THEN /\ cur_subpass' \in IF cur_subpass = USIZE_MAX THEN {USIZE_MAX, 0}
                                ELSE {cur_subpass + 1}
            /\ Done("next_subpass", << >>, TRUE)
            /\ UNCHANGED <<pass_cache, pass_log>>
       ELSE LET e == EnterSubpass(pass_cache[1], cur_subpass + 1)
            IN /\ cur_subpass' = cur_subpass + 1
               /\ pass_log' = [pass_log EXCEPT !.events = @ \o e.events, !.nexts = @ + 1]
               /\ Done("next_subpass", e.calls, e.panic)
               /\ UNCHANGED pass_cache
    /\ UNCHANGED <<bindVars, copyVars, queryVars>>

\* an end_render_pass that keeps the cache of the pass
EndRenderPassKeepCache ==
    /\ Recording
    /\ cur_subpass' = USIZE_MAX
    /\ IF pass_cache = << >>
       THEN /\ Done("end_render_pass", << >>, TRUE)
            /\ UNCHANGED <<pass_cache, pass_log>>
       ELSE LET b == insert_subpass_barriers(pass_cache[1], USIZE_MAX)
            IN /\ pass_log' = [pass_log EXCEPT !.events = @ \o b.events,
                                               !.ended = ~b.panic]
               /\ Done("end_render_pass", b.calls, b.panic)
               /\ UNCHANGED pass_cache
    /\ UNCHANGED <<bindVars, copyVars, queryVars>>

\* end_render_pass
EndRenderPass ==
    /\ Recording
    /\ cur_subpass' = USIZE_MAX
    /\ IF pass_cache = << >>
       THEN /\ Done("end_render_pass", << >>, TRUE)
            /\ UNCHANGED <<pass_cache, pass_log>>
       ELSE LET b == insert_subpass_barriers(pass_cache[1], USIZE_MAX)
            IN /\ pass_cache' = IF b.panic THEN pass_cache ELSE << >>
               /\ pass_log' = [pass_log EXCEPT !.events = @ \o b.events,
                                               !.ended = ~b.panic]
               /\ Done("end_render_pass", b.calls, b.panic)
    /\ UNCHANGED <<bindVars, copyVars, queryVars>>

\* Framebuffers: image views with a render-target handle or a depth-stencil handle
ViewColorA == ImageView(101, Some(201), None)
ViewColorB == ImageView(102, Some(202), None)
ViewDepth == ImageView(103, None, Some(303))
FramebufferColor == Framebuffer(<< ViewColorA >>)
FramebufferColorDepth == Framebuffer(<< ViewColorA, ViewDepth >>)
FramebufferThree == Framebuffer(<< ViewColorA, ViewColorB, ViewDepth >>)

\* one subpass, one colour attachment that is cleared; only post-barriers
PassSingle ==
    RenderPass(<< Attachment("Clear", "DontCare") >>,
               << SubpassDesc(<< AttachmentRef(0, "ColorAttachmentOptimal") >>, << >>, << >>,
                              << >>) >>,
               << BarrierDesc(0, 4, 0) >>)

\* two subpasses; the depth-stencil attachment, cleared in depth and stencil, is
\* first used by the second
PassTwo ==
    RenderPass(<< Attachment("Clear", "DontCare"), Attachment("Clear", "Clear") >>,
               << SubpassDesc(<< AttachmentRef(0, "ColorAttachmentOptimal") >>, << >>, << >>,
                              << BarrierDesc(0, 0, 4) >>),
                  SubpassDesc(<< AttachmentRef(0, "ColorAttachmentOptimal") >>,
                              << AttachmentRef(1, "DepthStencilAttachmentOptimal") >>, << >>,
                              << BarrierDesc(1, 0, 16) >>) >>,
               << BarrierDesc(0, 4, 0), BarrierDesc(1, 16, 0) >>)

\* three subpasses; the second has no pre-barriers and there are no
\* post-barriers; the first attachment is loaded, the second is cleared and
\* first used as an input attachment, the third has only its stencil cleared
PassThree ==
    RenderPass(<< Attachment("Load", "DontCare"), Attachment("Clear", "DontCare"),
                  Attachment("Load", "Clear") >>,
               << SubpassDesc(<< AttachmentRef(0, "ColorAttachmentOptimal") >>, << >>, << >>,
                              << BarrierDesc(0, 0, 4) >>),
                  SubpassDesc(<< AttachmentRef(0, "ColorAttachmentOptimal") >>, << >>,
                              << AttachmentRef(1, "ShaderReadOnlyOptimal") >>, << >>),
                  SubpassDesc(<< AttachmentRef(1, "ColorAttachmentOptimal") >>,
                              << AttachmentRef(2, "DepthStencilAttachmentOptimal") >>, << >>,
                              << BarrierDesc(1, 128, 4), BarrierDesc(2, 0, 16) >>) >>,
               << >>)

\* both attachments are cleared, no subpass uses the second
PassUnused ==
    RenderPass(<< Attachment("Clear", "DontCare"), Attachment("Clear", "DontCare") >>,
               << SubpassDesc(<< AttachmentRef(0, "ColorAttachmentOptimal") >>, << >>, << >>,
                              << BarrierDesc(0, 0, 4) >>) >>,
               << BarrierDesc(0, 4, 0) >>)

\* a colour attachment that is loaded and whose stencil load operation is clear
PassColorStencil ==
    RenderPass(<< Attachment("Load", "Clear") >>,
               << SubpassDesc(<< AttachmentRef(0, "ColorAttachmentOptimal") >>, << >>, << >>,
                              << BarrierDesc(0, 0, 4) >>) >>,
               << >>)

\* no subpass at all
PassEmpty == RenderPass(<< Attachment("Clear", "DontCare") >>, << >>, << >>)

\* a subpass that works with Present as its layout
PassPresent ==
    RenderPass(<< Attachment("Clear", "DontCare") >>,
               << SubpassDesc(<< AttachmentRef(0, "Present") >>, << >>, << >>, << >>) >>,
               << >>)

ClearValues == << ClearValueRaw(11, 12, 13), ClearValueRaw(21, 22, 23) >>

PassRequest(render_pass, framebuffer, clear_values) ==
    [render_pass |-> render_pass, framebuffer |-> framebuffer, clear_values |-> clear_values]

\* the passes with a framebuffer of their attachments and enough clear values;
\* then too few clear values, a framebuffer of another length, and the passes
\* the asserts and the target binding refuse
PassRequests ==
    { PassRequest(PassSingle, FramebufferColor, ClearValues),
      PassRequest(PassTwo, FramebufferColorDepth, ClearValues),
      PassRequest(PassThree, FramebufferThree, ClearValues),
      PassRequest(PassUnused, FramebufferThree, ClearValues),
      PassRequest(PassUnused, FramebufferColorDepth, ClearValues),
      PassRequest(PassColorStencil, FramebufferColor, ClearValues),
      PassRequest(PassTwo, FramebufferColorDepth, << ClearValueRaw(11, 12, 13) >>),
      PassRequest(PassSingle, FramebufferColorDepth, ClearValues),
      PassRequest(PassEmpty, FramebufferColor, ClearValues),
      PassRequest(PassPresent, FramebufferColor, ClearValues) }

NextPass ==
    \/ Reset
    \/ \E q \in PassRequests : BeginRenderPass(q.render_pass, q.framebuffer, q.clear_values)
    \/ NextSubpass
    \/ EndRenderPass

SpecPass == Init /\ [][NextPass]_vars

-----------------------------------------------------------------------------
(* Queries: begin_query, end_query *)

\* d3d12::D3D12_QUERY_HEAP_TYPE_*: the type of the pool of a query
QueryHeapTypes == {"OCCLUSION", "TIMESTAMP", "PIPELINE_STATISTICS"}

\* query::Query: its pool's type and its id
Query(ty, id) == [ty |-> ty, id |-> id]

\* enum OcclusionQuery
Binary(id) == [tag |-> "Binary", id |-> id]
Precise(id) == [tag |-> "Precise", id |-> id]

\* BeginQuery / EndQuery of the native list, with the native query type
QueryCall(name, query_ty, id) ==
    [call |-> name, slot |-> id, data |-> << >>, regs |-> << query_ty >>, arg |-> 0]

\* begin_query: the tracker of the query's category takes the query; a
\* timestamp pool panics
BeginQuery(query, precise) ==
    /\ Recording
    /\ CASE query.ty = "OCCLUSION" ->
              /\ occlusion_query' = IF precise THEN << Precise(query.id) >>
                                    ELSE << Binary(query.id) >>
              /\ Done("begin_query",
                      << QueryCall("BeginQuery",
                                   IF precise THEN "OCCLUSION" ELSE "BINARY_OCCLUSION",
                                   query.id) >>,
                      FALSE)
              /\ UNCHANGED pipeline_stats_query
         [] query.ty = "TIMESTAMP" ->
              /\ Done("begin_query", << >>, TRUE)
              /\ UNCHANGED queryVars
         [] query.ty = "PIPELINE_STATISTICS" ->
              /\ pipeline_stats_query' = << query.id >>
              /\ Done("begin_query",
                      << QueryCall("BeginQuery", "PIPELINE_STATISTICS", query.id) >>, FALSE)
              /\ UNCHANGED occlusion_query
    /\ UNCHANGED <<bindVars, copyVars, passVars>>

\* variant of Tracked that matches whatever occlusion query is tracked
TrackedAny(tracker, entry) == tracker # << >>

\* variant of Tracked that matches no tracked query
TrackedNever(tracker, entry) == FALSE

\* the guard of an arm of end_query: the tracker holds exactly this entry
Tracked(tracker, entry) == tracker = << entry >>

\* end_query: the arm whose guard holds clears its tracker and names the native
\* query type; without one the call panics
EndQuery(query) ==
    /\ Recording
    /\ CASE query.ty = "OCCLUSION" /\ Tracked(occlusion_query, Precise(query.id)) ->
              /\ occlusion_query' = << >>
              /\ Done("end_query", << QueryCall("EndQuery", "OCCLUSION", query.id) >>, FALSE)
              /\ UNCHANGED pipeline_stats_query
         [] query.ty = "OCCLUSION" /\ ~Tracked(occlusion_query, Precise(query.id))
              /\ Tracked(occlusion_query, Binary(query.id)) ->
              /\ occlusion_query' = << >>
              /\ Done("end_query",
                      << QueryCall("EndQuery", "BINARY_OCCLUSION", query.id) >>, FALSE)
              /\ UNCHANGED pipeline_stats_query
         [] query.ty = "PIPELINE_STATISTICS" /\ pipeline_stats_query = << query.id >> ->
              /\ pipeline_stats_query' = << >>
              /\ Done("end_query",
                      << QueryCall("EndQuery", "PIPELINE_STATISTICS", query.id) >>, FALSE)
              /\ UNCHANGED occlusion_query
         [] OTHER ->
              /\ Done("end_query", << >>, TRUE)
              /\ UNCHANGED queryVars
    /\ UNCHANGED <<bindVars, copyVars, passVars>>

\* ids of the queries of a pool
QueryIds == {0, 1}

Queries == { Query(ty, id) : ty \in QueryHeapTypes, id \in QueryIds }

\* a write_timestamp that ends the tracked query as end_query does
WriteTimestampTracked(query) ==
    /\ Recording
    /\ occlusion_query' = << >>
    /\ Done("write_timestamp", << QueryCall("EndQuery", "TIMESTAMP", query.id) >>,
            occlusion_query = << >>)
    /\ UNCHANGED <<pipeline_stats_query, bindVars, copyVars, passVars>>

\* a write_timestamp that makes the compute bind point active
WriteTimestampActivating(query) ==
    /\ Recording
    /\ Done("write_timestamp", << QueryCall("EndQuery", "TIMESTAMP", query.id) >>, FALSE)
    /\ active_bindpoint' = "Compute"
    /\ UNCHANGED <<gr_pipeline, comp_pipeline, pso, written, bound, since>>
    /\ UNCHANGED <<queryVars, copyVars, passVars>>

\* write_timestamp: one native EndQuery of type TIMESTAMP, whatever the pool
\* of the query and whatever is tracked
WriteTimestamp(query) ==
    /\ Recording
    /\ Done("write_timestamp", << QueryCall("EndQuery", "TIMESTAMP", query.id) >>, FALSE)
    /\ UNCHANGED <<queryVars, bindVars, copyVars, passVars>>

\* reset_query_pool: nothing to do
ResetQueryPool ==
    /\ Recording
    /\ Done("reset_query_pool", << >>, FALSE)
    /\ UNCHANGED <<queryVars, bindVars, copyVars, passVars>>

NextQuery ==
    \/ Reset
    \/ \E q \in Queries : \E precise \in BOOLEAN : BeginQuery(q, precise)
    \/ \E q \in Queries : EndQuery(q)
    \/ \E q \in Queries : WriteTimestamp(q)
    \/ ResetQueryPool

SpecQuery == Init /\ [][NextQuery]_vars

-----------------------------------------------------------------------------
(* pipeline_barrier and the operations that are not implemented *)

D3D12_RESOURCE_BARRIER_TYPE_TRANSITION == 0
D3D12_RESOURCE_BARRIER_TYPE_ALIASING == 1
D3D12_RESOURCE_BARRIER_TYPE_UAV == 2

\* 0xffffffff, scaled to the largest integer of TLC; every subresource index of
\* the model is far below it
D3D12_RESOURCE_BARRIER_ALL_SUBRESOURCES == 2147483647

\* conv::map_buffer_resource_state: the native state of a set of buffer
\* accesses; a write access decides alone, read accesses add up, and reading as
\* a vertex buffer or as a constant buffer is one native state
map_buffer_resource_state(access) ==
    IF "TRANSFER_WRITE" \in access THEN 1024
    ELSE IF "SHADER_WRITE" \in access THEN 8
    ELSE (IF "TRANSFER_READ" \in access THEN 2048 ELSE 0)
         + (IF "INDEX_BUFFER_READ" \in access THEN 2 ELSE 0)
         + (IF access \cap {"VERTEX_BUFFER_READ", "CONSTANT_BUFFER_READ"} # {} THEN 1 ELSE 0)

\* conv::map_image_resource_state: the native state of an image access and
\* layout; the layout decides, and General and Present are both the common state
map_image_resource_state(access, layout) ==
    CASE layout = "ColorAttachmentOptimal" -> 4
      [] layout = "DepthStencilAttachmentOptimal" -> 16
      [] layout = "ShaderReadOnlyOptimal" -> 192
      [] layout = "TransferSrcOptimal" -> 2048
      [] layout = "TransferDstOptimal" -> 1024
      [] OTHER -> 0

\* memory::Barrier, its four forms
AllBuffers == [kind |-> "AllBuffers"]
AllImages == [kind |-> "AllImages"]
BufferBarrier(start, end, target) ==
    [kind |-> "Buffer", states |-> [start |-> start, end |-> end], target |-> target]
ImageBarrier(start, end, target, range) ==
    [kind |-> "Image", states |-> [start |-> start, end |-> end], target |-> target,
     range |-> range]

\* image::SubresourceRange: levels and layers as half-open ranges
SubresourceRange(levels, layers) == [levels |-> levels, layers |-> layers]

\* n::Image::to_subresource_range: every level and layer of the image
to_subresource_range(image) ==
    SubresourceRange(<<0, image.levels>>, <<0, image.layers>>)

\* one entry of the native batch: its type, then the resource, subresource and
\* the states before and after of a transition, zero for the other types
RawBarrier(type, resource, subresource, before, after) ==
    << type, resource, subresource, before, after >>

\* Self::transition_barrier
transition_barrier(resource, subresource, before, after) ==
    RawBarrier(D3D12_RESOURCE_BARRIER_TYPE_TRANSITION, resource, subresource, before, after)

\* the UAV barrier with a null resource
GlobalUavBarrier == RawBarrier(D3D12_RESOURCE_BARRIER_TYPE_UAV, 0, 0, 0, 0)

\* the aliasing barrier with null resources before and after
GlobalAliasingBarrier == RawBarrier(D3D12_RESOURCE_BARRIER_TYPE_ALIASING, 0, 0, 0, 0)

\* variant of LayerBarriers that stops after the first layer of the range
LayerBarriersFirst(target, level, layer, last, before, after) ==
    IF layer >= last THEN << >>
    ELSE << transition_barrier(target.resource, calc_subresource(target, level, layer, 0),
                               before, after) >>

\* the barriers of one level of an image range, layer by layer
RECURSIVE LayerBarriers(_, _, _, _, _, _)
LayerBarriers(target, level, layer, last, before, after) ==
    IF layer >= last THEN << >>
    ELSE << transition_barrier(target.resource, calc_subresource(target, level, layer, 0),
                               before, after) >>
         \o LayerBarriers(target, level, layer + 1, last, before, after)

\* the barriers of an image range, level by level
RECURSIVE LevelBarriers(_, _, _, _, _, _)
LevelBarriers(target, level, last, layers, before, after) ==
    IF level >= last THEN << >>
    ELSE LayerBarriers(target, level, layers[1], layers[2], before, after)
         \o LevelBarriers(target, level + 1, last, layers, before, after)

\* the arm of one input barrier: the entries it pushes
TranslateBarrier(barrier) ==
    CASE barrier.kind \in {"AllBuffers", "AllImages"} -> << GlobalUavBarrier >>
      [] barrier.kind = "Buffer" ->
           LET state_src == map_buffer_resource_state(barrier.states.start)
               state_dst == map_buffer_resource_state(barrier.states.end)
           IN IF state_src = state_dst THEN << >>
              ELSE << transition_barrier(barrier.target.resource,
                                         D3D12_RESOURCE_BARRIER_ALL_SUBRESOURCES,
                                         state_src, state_dst) >>
      [] barrier.kind = "Image" ->
           LET state_src == map_image_resource_state(barrier.states.start[1],
                                                     barrier.states.start[2])
               state_dst == map_image_resource_state(barrier.states.end[1],
                                                     barrier.states.end[2])
           IN IF state_src = state_dst THEN << >>
              ELSE IF barrier.range = to_subresource_range(barrier.target)
              THEN << transition_barrier(barrier.target.resource,
                                         D3D12_RESOURCE_BARRIER_ALL_SUBRESOURCES,
                                         state_src, state_dst) >>
              ELSE LevelBarriers(barrier.target, barrier.range.levels[1],
                                 barrier.range.levels[2], barrier.range.layers,
                                 state_src, state_dst)

\* the loop over the input barriers
RECURSIVE TranslateBarriers(_)
TranslateBarriers(barriers) ==
    IF barriers = << >> THEN << >>
    ELSE TranslateBarrier(Head(barriers)) \o TranslateBarriers(Tail(barriers))

\* variant of GlobalBarriers that appends the global barriers only to an empty batch
GlobalBarriersIfEmpty(raw_barriers) ==
    IF raw_barriers = << >> THEN << GlobalUavBarrier, GlobalAliasingBarrier >> ELSE << >>

\* the two entries appended to every batch
GlobalBarriers(raw_barriers) == << GlobalUavBarrier, GlobalAliasingBarrier >>

\* pipeline_barrier: the translated barriers and the two global ones, in one
\* native call
PipelineBarrier(barriers) ==
    /\ Recording
    /\ LET translated == TranslateBarriers(barriers)
           raw_barriers == translated \o GlobalBarriers(translated)
       IN Done("pipeline_barrier",
               << ResourceBarrierCall(Flatten(raw_barriers), Len(raw_barriers)) >>, FALSE)
    /\ UNCHANGED <<bindVars, copyVars, passVars, queryVars>>

\* blit_image: unimplemented!()
BlitImage ==
    /\ Recording
    /\ Done("blit_image", << >>, TRUE)
    /\ UNCHANGED <<bindVars, copyVars, passVars, queryVars>>

\* update_buffer: unimplemented!()
UpdateBuffer ==
    /\ Recording
    /\ Done("update_buffer", << >>, TRUE)
    /\ UNCHANGED <<bindVars, copyVars, passVars, queryVars>>

\* execute_commands: an error! log line per secondary command buffer, no
\* native call, and the call returns
ExecuteCommands(buffers) ==
    /\ Recording
    /\ Done("execute_commands", << >>, FALSE)
    /\ UNCHANGED <<bindVars, copyVars, passVars, queryVars>>

\* an image of two levels and two layers, and a buffer
BarrierImage == [resource |-> 401, levels |-> 2, layers |-> 2]
BarrierBuffer == [resource |-> 501]

\* the input barriers: the two global forms; buffer transitions whose native
\* states differ and agree; image transitions of the whole image, of a part of
\* it, and between two layouts of one native state
Barriers ==
    { AllBuffers, AllImages,
      BufferBarrier({"TRANSFER_WRITE"}, {"VERTEX_BUFFER_READ"}, BarrierBuffer),
      BufferBarrier({"VERTEX_BUFFER_READ"}, {"CONSTANT_BUFFER_READ"}, BarrierBuffer),
      ImageBarrier(<<{}, "TransferDstOptimal">>, <<{}, "ShaderReadOnlyOptimal">>,
                   BarrierImage, to_subresource_range(BarrierImage)),
      ImageBarrier(<<{}, "ColorAttachmentOptimal">>, <<{}, "TransferSrcOptimal">>,
                   BarrierImage, SubresourceRange(<<0, 2>>, <<1, 2>>)),
      ImageBarrier(<<{}, "General">>, <<{}, "Present">>,
                   BarrierImage, to_subresource_range(BarrierImage)),
      BufferBarrier({"TRANSFER_READ", "INDEX_BUFFER_READ"}, {"SHADER_WRITE"}, BarrierBuffer),
      ImageBarrier(<<{}, "General">>, <<{}, "DepthStencilAttachmentOptimal">>,
                   BarrierImage, SubresourceRange(<<1, 2>>, <<0, 2>>)) }

\* the batches of at most two input barriers
BarrierBatches ==
    { << >> } \cup { << b >> : b \in Barriers } \cup { << a, b >> : a, b \in Barriers }

\* the number of secondary command buffers handed to execute_commands
SecondaryCounts == {0, 1, 2}

NextMisc ==
    \/ Reset
    \/ \E barriers \in BarrierBatches : PipelineBarrier(barriers)
    \/ BlitImage
    \/ UpdateBuffer
    \/ \E n \in SecondaryCounts : ExecuteCommands(n)

SpecMisc == Init /\ [][NextMisc]_vars

-----------------------------------------------------------------------------
(* Reset after operations of every subsystem *)

\* a pass of two subpasses and one that has a single subpass
ResetPasses ==
    { q \in PassRequests :
        /\ q.render_pass \in {PassSingle, PassTwo}
        /\ Len(q.framebuffer.attachments) = Len(q.render_pass.attachments)
        /\ q.clear_values = ClearValues }

\* the batches of sets that bind to the first table of a layout
ResetSets == { r \in SetRequests : r.first_set = 0 /\ Len(r.sets) = 1 }

\* the queries of id 0 that begin_query tracks
ResetQueries == { q \in Queries : q.id = 0 /\ q.ty # "TIMESTAMP" }

NextReset ==
    \/ Reset
    \/ \E p \in GraphicsPipelines : BindGraphicsPipeline(p)
    \/ \E p \in ComputePipelines : BindComputePipeline(p)
    \/ \E r \in ResetSets : BindGraphicsDescriptorSets(r.layout, r.first_set, r.sets)
    \/ \E r \in ResetSets : BindComputeDescriptorSets(r.layout, r.first_set, r.sets)
    \/ Dispatch
    \/ \E q \in ResetPasses : BeginRenderPass(q.render_pass, q.framebuffer, q.clear_values)
    \/ NextSubpass
    \/ \E q \in ResetQueries : BeginQuery(q, FALSE)
    \/ Draw
    \/ EndRenderPass
    \/ \E q \in ResetQueries : EndQuery(q)
    \/ WriteTimestamp(Query("TIMESTAMP", 0))
    \/ PushComputeConstants(LayoutC, 1, << 7 >>)

SpecReset == Init /\ [][NextReset]_vars

-----------------------------------------------------------------------------
(* Viewports and scissors *)

\* pso::Viewport and pso::Rect
Rect(x, y, w, h) == [x |-> x, y |-> y, w |-> w, h |-> h]
Viewport(rect, near, far) == [rect |-> rect, depth |-> [start |-> near, end |-> far]]

\* d3d12::D3D12_VIEWPORT built from a pso::Viewport:
\* << TopLeftX, TopLeftY, Width, Height, MinDepth, MaxDepth >>
D3D12_VIEWPORT(viewport) ==
    << viewport.rect.x, viewport.rect.y, viewport.rect.w, viewport.rect.h,
       viewport.depth.start, viewport.depth.end >>

\* get_rect: d3d12::D3D12_RECT << left, top, right, bottom >> of a pso::Rect
get_rect(rect) ==
    << rect.x, rect.y, rect.x + rect.w, rect.y + rect.h >>

RECURSIVE UpdateCache(_, _, _, _)
\* for (i, item) in items.enumerate(): push when i + first is not below the
\* length of the cache, else overwrite entry i + first (indices from 0)
UpdateCache(cache, first, items, i) ==
    IF i >= Len(items) THEN cache
    ELSE UpdateCache(IF i + first >= Len(cache)
                     THEN Append(cache, items[i + 1])
                     ELSE [cache EXCEPT ![i + first + 1] = items[i + 1]],
                     first, items, i + 1)

\* RSSetViewports(len, ptr) / RSSetScissorRects(len, ptr): the whole array
ArrayCall(name, cache) ==
    [call |-> name, slot |-> 0, data |-> Flatten(cache), regs |-> << >>,
     arg |-> Len(cache)]

\* set_viewports(first_viewport, viewports)
SetViewports(first_viewport, viewports) ==
    /\ Recording
    /\ viewport_cache' =
          UpdateCache(viewport_cache, first_viewport,
                      [n \in 1..Len(viewports) |-> D3D12_VIEWPORT(viewports[n])], 0)
    /\ Finish("set_viewports", << ArrayCall("RSSetViewports", viewport_cache') >>, FALSE)
    /\ UNCHANGED <<scissor_cache, bindVars, copyVars, passVars, queryVars>>

\* set_scissors(first_scissor, scissors)
SetScissors(first_scissor, scissors) ==
    /\ Recording
    /\ scissor_cache' =
          UpdateCache(scissor_cache, first_scissor,
                      [n \in 1..Len(scissors) |-> get_rect(scissors[n])], 0)
    /\ Finish("set_scissors", << ArrayCall("RSSetScissorRects", scissor_cache') >>, FALSE)
    /\ UNCHANGED <<viewport_cache, bindVars, copyVars, passVars, queryVars>>

\* two viewports and two scissor rectangles
ViewportA == Viewport(Rect(0, 0, 64, 32), 0, 1)
ViewportB == Viewport(Rect(8, 4, 16, 16), 0, 1)
RectA == Rect(0, 0, 64, 32)
RectB == Rect(8, 4, 16, 16)

\* the arguments of set_viewports and set_scissors: none, one and two entries,
\* from the start of the array, inside it, at its end and past its end
ArrayRequest(first, items) == [first |-> first, items |-> items]
ViewportRequests ==
    { ArrayRequest(0, << >>),
      ArrayRequest(0, << ViewportA >>),
      ArrayRequest(0, << ViewportA, ViewportB >>),
      ArrayRequest(0, << ViewportB >>),
      ArrayRequest(1, << ViewportB >>),
      ArrayRequest(2, << ViewportA >>) }
ScissorRequests ==
    { ArrayRequest(0, << RectA >>),
      ArrayRequest(0, << RectB, RectA >>),
      ArrayRequest(1, << RectB >>),
      ArrayRequest(1, << RectA, RectB >>) }

NextView ==
    \/ Reset
    \/ \E r \in ViewportRequests : SetViewports(r.first, r.items)
    \/ \E r \in ScissorRequests : SetScissors(r.first, r.items)

SpecView == Init /\ [][NextView]_vars

-----------------------------------------------------------------------------
(* Two command buffers recorded by two threads *)

\* the scheduler: the next operation is recorded on the other command buffer.
\* Each command buffer keeps its fields (CommandBuffer is a struct of owned
\* values), its native list and its thread.
SwitchBuffer ==
    /\ other' = ThisBuffer
    /\ this' = 3 - this
    /\ gr_pipeline' = other.gr_pipeline
    /\ comp_pipeline' = other.comp_pipeline
    /\ active_bindpoint' = other.active_bindpoint
    /\ copies' = other.copies
    /\ pso' = other.pso
    /\ calls' = other.calls
    /\ op' = other.op
    /\ nops' = other.nops
    /\ aborted' = other.aborted
    /\ written' = other.written
    /\ bound' = other.bound
    /\ since' = other.since
    /\ region' = other.region
    /\ produced' = other.produced
    /\ pass_cache' = other.pass_cache
    /\ cur_subpass' = other.cur_subpass
    /\ pass_log' = other.pass_log
    /\ occlusion_query' = other.occlusion_query
    /\ pipeline_stats_query' = other.pipeline_stats_query
    /\ viewport_cache' = other.viewport_cache
    /\ scissor_cache' = other.scissor_cache

\* the copy the two threads record
TwoCopies == { q \in CopyRequests : q.regions = << RegionShifted >> }

NextTwo ==
    \/ SwitchBuffer
    \/ Reset
    \/ BindComputePipeline(Pipeline(11, LayoutA))
    \/ Dispatch
    \/ BeginQuery(Query("OCCLUSION", 0), TRUE)
    \/ \E q \in TwoCopies : CopyBufferToImage(q.image, q.regions)

SpecTwo == Init /\ [][NextTwo]_vars

-----------------------------------------------------------------------------
(* What a flush passed to the writers *)

ConstantsWriters == {"SetGraphicsRoot32BitConstants", "SetComputeRoot32BitConstants"}
TableWriters == {"SetGraphicsRootDescriptorTable", "SetComputeRootDescriptorTable"}

IsConstantsCall(c) == c.call \in ConstantsWriters
IsTableCall(c) == c.call \in TableWriters
IsWriterCall(c) == IsConstantsCall(c) \/ IsTableCall(c)

\* the writer calls of the last operation
WriterCalls == { k \in 1..Len(calls) : IsWriterCall(calls[k]) }

\* how many times register r was handed to a writer by the last operation
PassedCount(r) ==
    Cardinality(UNION { { <<k, j>> : j \in { i \in 1..Len(calls[k].regs) :
                                                calls[k].regs[i] = r } } :
                        k \in WriterCalls })

\* the registers the signature cached in `cache` gives to its push-constant
\* ranges, and to its occupied table slots
ConstantRegs(cache) == { r \in Regs : r < TableBaseOffset(cache.root_constants) }
TableRegs(cache) ==
    { r \in Regs :
        /\ r >= TableBaseOffset(cache.root_constants)
        /\ r < TableBaseOffset(cache.root_constants)
               + cache.num_parameter_slots - Len(cache.root_constants) }
HoldsTable(cache, r) == cache.user_data.data[r].tag \in {"TableSrvCbvUav", "TableSampler"}

\* the registers a flush of `cache` hands to a writer
Flushable(cache) ==
    ConstantRegs(cache) \cup { r \in TableRegs(cache) : HoldsTable(cache, r) }

\* the last operation ran a flush of the graphics / compute cache to its end
FlushedGraphics == op = "draw" /\ ~aborted
FlushedCompute == op = "dispatch" /\ ~aborted

-----------------------------------------------------------------------------
(* Root-element store and flush *)

\* C1 (as claimed): in a flush, every register written since the previous flush
\* of that bind point is passed to exactly one writer callback, and its dirty
\* bit is clear when the flush returns.
C1_WrittenPassedOnceAndCleared ==
    [][ /\ FlushedGraphics' =>
              \A r \in written.Graphics :
                  /\ PassedCount(r)' = 1
                  /\ r \notin gr_pipeline'.user_data.dirty_mask
        /\ FlushedCompute' =>
              \A r \in written.Compute :
                  /\ PassedCount(r)' = 1
                  /\ r \notin comp_pipeline'.user_data.dirty_mask ]_vars

\* C1 (amended): in a flush, every register written since the previous flush
\* that lies in a push-constant range of the cached signature, or at one of its
\* occupied table slots while holding a table offset, is passed to exactly one
\* writer callback and its dirty bit is clear when the flush returns; every
\* other written register is passed to no writer and stays dirty.
C1_FlushableWrittenPassedOnceAndCleared ==
    [][ /\ FlushedGraphics' =>
              \A r \in written.Graphics :
                  IF r \in Flushable(gr_pipeline)
                  THEN /\ PassedCount(r)' = 1
                       /\ r \notin gr_pipeline'.user_data.dirty_mask
                  ELSE /\ PassedCount(r)' = 0
                       /\ r \in gr_pipeline'.user_data.dirty_mask
        /\ FlushedCompute' =>
              \A r \in written.Compute :
                  IF r \in Flushable(comp_pipeline)
                  THEN /\ PassedCount(r)' = 1
                       /\ r \notin comp_pipeline'.user_data.dirty_mask
                  ELSE /\ PassedCount(r)' = 0
                       /\ r \in comp_pipeline'.user_data.dirty_mask ]_vars

\* C1 witness: a draw has flushed a pushed constant and a bound table, and left
\* both registers clean.
C1_Witness ==
    /\ FlushedGraphics
    /\ \E k \in WriterCalls :
          /\ IsConstantsCall(calls[k])
          /\ \E j \in 1..Len(calls[k].regs) :
                /\ gr_pipeline.user_data.data[calls[k].regs[j]].tag = "Constant"
                /\ calls[k].regs[j] \notin gr_pipeline.user_data.dirty_mask
    /\ \E k \in WriterCalls :
          /\ IsTableCall(calls[k])
          /\ calls[k].regs[1] \notin gr_pipeline.user_data.dirty_mask

\* the cache the last flush worked on
FlushedCache == IF op = "draw" THEN gr_pipeline ELSE comp_pipeline

\* C2 (as claimed): a flush never passes to a writer callback a register that
\* was never written, one still holding Undefined.
C2_NeverPassesUndefined ==
    (FlushedGraphics \/ FlushedCompute) =>
        \A k \in WriterCalls : \A j \in 1..Len(calls[k].regs) :
            FlushedCache.user_data.data[calls[k].regs[j]].tag # "Undefined"

\* C2 (amended): a flush never passes a register still holding Undefined to the
\* table writer: every handle it passes is resolved from a register holding a
\* table offset; a register of a push-constant range that holds no Constant is
\* handed to the constants writer as 0, one that holds a Constant as its value.
C2_UndefinedOnlyAsZeroConstant ==
    (FlushedGraphics \/ FlushedCompute) =>
        \A k \in WriterCalls :
            /\ IsTableCall(calls[k]) =>
                  HoldsTable(FlushedCache, calls[k].regs[1])
            /\ IsConstantsCall(calls[k]) =>
                  \A j \in 1..Len(calls[k].regs) :
                      LET e == FlushedCache.user_data.data[calls[k].regs[j]] IN
                      calls[k].data[j] = IF e.tag = "Constant" THEN e.v ELSE 0

\* C2 witness: a flush has handed a never-written register of a push-constant
\* range to the constants writer, and a bound table to the table writer.
C2_Witness ==
    /\ FlushedGraphics \/ FlushedCompute
    /\ \E k \in WriterCalls :
          /\ IsConstantsCall(calls[k])
          /\ \E j \in 1..Len(calls[k].regs) :
                /\ FlushedCache.user_data.data[calls[k].regs[j]].tag = "Undefined"
                /\ calls[k].data[j] = 0
    /\ \E k \in WriterCalls : IsTableCall(calls[k])

-----------------------------------------------------------------------------
(* Pipeline binds *)

\* a pipeline bind step that finds the signature it is given already cached
SameSignatureBind(cache) ==
    cache.pipeline.some /\ cache.pipeline.signature = cache'.pipeline.signature

\* C3: a pipeline bind whose signature equals the cached one sets no dirty bit
\* and leaves the registers, the slot count and the push-constant ranges of that
\* bind point unchanged, so that what was already flushed is not flushed again:
\* the next draw / dispatch, with nothing written in between, calls no writer.
C3_SameSignatureBindPreserves ==
    [][ /\ (op' = "bind_graphics_pipeline" /\ SameSignatureBind(gr_pipeline)) =>
              /\ gr_pipeline'.user_data = gr_pipeline.user_data
              /\ gr_pipeline'.num_parameter_slots = gr_pipeline.num_parameter_slots
              /\ gr_pipeline'.root_constants = gr_pipeline.root_constants
        /\ (op' = "bind_compute_pipeline" /\ SameSignatureBind(comp_pipeline)) =>
              /\ comp_pipeline'.user_data = comp_pipeline.user_data
              /\ comp_pipeline'.num_parameter_slots = comp_pipeline.num_parameter_slots
              /\ comp_pipeline'.root_constants = comp_pipeline.root_constants
        /\ (FlushedGraphics' /\ since.Graphics = "rebound") => WriterCalls' = {}
        /\ (FlushedCompute' /\ since.Compute = "rebound") => WriterCalls' = {} ]_vars

\* C4: a pipeline bind whose signature differs from the cached one, or that
\* finds no pipeline cached, marks all 64 registers of that bind point dirty.
C4_SignatureChangeMarksAllDirty ==
    [][ /\ (op' = "bind_graphics_pipeline" /\ ~SameSignatureBind(gr_pipeline)) =>
              gr_pipeline'.user_data.dirty_mask = 0 .. 63
        /\ (op' = "bind_compute_pipeline" /\ ~SameSignatureBind(comp_pipeline)) =>
              comp_pipeline'.user_data.dirty_mask = 0 .. 63 ]_vars

\* C4 witness: a graphics bind has set a new native root signature on a store
\* that already holds written registers, and all 64 registers are dirty.
C4_Witness ==
    /\ op = "bind_graphics_pipeline"
    /\ calls[1].call = "SetGraphicsRootSignature"
    /\ \E r \in Regs : gr_pipeline.user_data.data[r].tag # "Undefined"
    /\ Cardinality(gr_pipeline.user_data.dirty_mask) = 64

\* C5: when a draw records its native draw call, the pipeline state set on the
\* native list is the graphics pipeline last passed to bind_graphics_pipeline,
\* and when a dispatch records its native dispatch, the compute pipeline last
\* passed to bind_compute_pipeline.
C5_NativePipelineIsLastBound ==
    /\ (FlushedGraphics /\ bound.Graphics # 0) => pso = bound.Graphics
    /\ (FlushedCompute /\ bound.Compute # 0) => pso = bound.Compute

\* C5 witness: a draw issued while the compute bind point was active has
\* switched the native list back to the graphics pipeline.
C5_Witness ==
    /\ FlushedGraphics
    /\ bound.Compute # 0
    /\ calls[1].call = "SetPipelineState"
    /\ pso = bound.Graphics

\* C6: after a draw (dispatch) has flushed a bind point, a following draw
\* (dispatch) with no pipeline bind, descriptor-set bind or push-constants call
\* on that bind point in between calls no constants writer and no table writer.
C6_FlushOnlyOnce ==
    [][ /\ (FlushedGraphics' /\ since.Graphics = "flushed") => WriterCalls' = {}
        /\ (FlushedCompute' /\ since.Compute = "flushed") => WriterCalls' = {} ]_vars

-----------------------------------------------------------------------------
(* What a copy command produced *)

\* the last operation was a copy command that returned
Copied == op \in {"copy_buffer_to_image", "copy_image_to_buffer"} /\ ~aborted

\* the regions of the last copy command, and the layers of region i
CopiedRegions == 1..Len(region.regions)
CopiedLayers(i) == 1..Len(produced[i])
LayerAt(i, j) == region.regions[i].image_layers.layers.start + j - 1

\* the texels of the box of `extent` at `offset`
Texels(offset, extent) ==
    (offset.x .. offset.x + extent.width - 1)
        \X (offset.y .. offset.y + extent.height - 1)
        \X (offset.z .. offset.z + extent.depth - 1)
InBox(t, offset, extent) ==
    /\ offset.x <= t[1] /\ t[1] < offset.x + extent.width
    /\ offset.y <= t[2] /\ t[2] < offset.y + extent.height
    /\ offset.z <= t[3] /\ t[3] < offset.z + extent.depth
BoxWithin(offset, extent, o2, e2) ==
    \/ extent.width = 0 \/ extent.height = 0 \/ extent.depth = 0
    \/ /\ o2.x <= offset.x /\ offset.x + extent.width <= o2.x + e2.width
       /\ o2.y <= offset.y /\ offset.y + extent.height <= o2.y + e2.height
       /\ o2.z <= offset.z /\ offset.z + extent.depth <= o2.z + e2.depth

\* C7: when a copy command returns, then for every region of it and every
\* layer of the region there is a list of Copy entries, all on that layer's
\* subresource, whose image boxes [img_offset, img_offset + copy_extent) lie
\* in the requested box and hold every texel of the requested box exactly
\* once: they are pairwise disjoint and their union is the requested box.
C7_ImageSideCoverage ==
    Copied =>
      \A i \in CopiedRegions :
        LET r == region.regions[i]
        IN /\ Len(produced[i]) = r.image_layers.layers.end - r.image_layers.layers.start
           /\ \A j \in CopiedLayers(i) :
                LET cs == produced[i][j]
                IN /\ \A k \in 1..Len(cs) :
                        /\ cs[k].img_subresource =
                             calc_subresource(region.image, r.image_layers.level,
                                              LayerAt(i, j), 0)
                        /\ BoxWithin(cs[k].img_offset, cs[k].copy_extent,
                                     r.image_offset, r.image_extent)
                   /\ \A t \in Texels(r.image_offset, r.image_extent) :
                        Cardinality({ k \in 1..Len(cs) :
                                        InBox(t, cs[k].img_offset, cs[k].copy_extent) }) = 1

\* a copy command returned after splitting the rows of a layer: one layer got
\* several Copy entries with texels in them
C7_Witness ==
    /\ Copied
    /\ \E i \in CopiedRegions : \E j \in CopiedLayers(i) :
         /\ Len(produced[i][j]) >= 2
         /\ \A k \in 1..Len(produced[i][j]) : produced[i][j][k].copy_extent.width > 0

\* the byte a Copy's placed footprint addresses for texel (dx, dy, dz) of its
\* copy_extent
FootprintByte(c, image, dx, dy, dz) ==
    c.footprint_offset
      + (c.buf_offset.z + dz) * c.row_pitch * c.footprint.height
      + (c.buf_offset.y + dy) * c.row_pitch
      + (c.buf_offset.x + dx) * image.bytes_per_block

\* the byte the abstract region gives to the texel (x, y, z) of the j-th
\* layer of the region, counted from the region's image offset
RegionByte(r, image, j, x, y, z) ==
    LET row_pitch == RowPitch(r, image).val
        slice_pitch == SlicePitch(r, image, row_pitch).val
    IN r.buffer_offset + (j - 1) * slice_pitch * r.image_extent.depth
         + z * slice_pitch + y * row_pitch + x * image.bytes_per_block

\* C8: when a copy command returns, every texel (dx, dy, dz) of every Copy
\* produced (for images of 1x1 blocks) is addressed through the placed
\* footprint at the byte the abstract region assigns to that image texel.
C8_BufferSideCoverage ==
    (Copied /\ region.image.block_dim = <<1, 1>>) =>
      \A i \in CopiedRegions : \A j \in CopiedLayers(i) :
        \A k \in 1..Len(produced[i][j]) :
          LET r == region.regions[i]
              c == produced[i][j][k]
          IN \A d \in Texels(OffsetZERO, c.copy_extent) :
               FootprintByte(c, region.image, d[1], d[2], d[3])
                 = RegionByte(r, region.image, j,
                              c.img_offset.x + d[1] - r.image_offset.x,
                              c.img_offset.y + d[2] - r.image_offset.y,
                              c.img_offset.z + d[3] - r.image_offset.z)

\* C9: when a copy command returns, every layer of a region whose buffer
\* byte offset is a multiple of 512, with a row pitch that is a multiple of
\* 256, got exactly one Copy: footprint_offset the layer's buffer offset,
\* footprint and copy_extent the requested extent, img_offset the requested
\* offset, buf_offset (0, 0, 0).
C9_AlignedRegionOneCopy ==
    Copied =>
      \A i \in CopiedRegions : \A j \in CopiedLayers(i) :
        LET r == region.regions[i]
            layer_offset == RegionByte(r, region.image, j, 0, 0, 0)
        IN (/\ layer_offset % D3D12_TEXTURE_DATA_PLACEMENT_ALIGNMENT = 0
            /\ RowPitch(r, region.image).val % D3D12_TEXTURE_DATA_PITCH_ALIGNMENT = 0)
           => /\ Len(produced[i][j]) = 1
              /\ produced[i][j][1].footprint_offset = layer_offset
              /\ produced[i][j][1].footprint = r.image_extent
              /\ produced[i][j][1].copy_extent = r.image_extent
              /\ produced[i][j][1].img_offset = r.image_offset
              /\ produced[i][j][1].buf_offset = OffsetZERO

\* C10: when a copy command returns, every Copy it produced has a row_pitch
\* that is a multiple of D3D12_TEXTURE_DATA_PITCH_ALIGNMENT.
C10_RowPitchAligned ==
    Copied =>
      \A i \in CopiedRegions : \A j \in CopiedLayers(i) :
        \A k \in 1..Len(produced[i][j]) :
          produced[i][j][k].row_pitch % D3D12_TEXTURE_DATA_PITCH_ALIGNMENT = 0

\* C11: when a copy command returns, every Copy it produced, in each of the
\* three cases, has a footprint_offset that is a multiple of
\* D3D12_TEXTURE_DATA_PLACEMENT_ALIGNMENT (512).
C11_FootprintOffsetAligned ==
    Copied =>
      \A i \in CopiedRegions : \A j \in CopiedLayers(i) :
        \A k \in 1..Len(produced[i][j]) :
          produced[i][j][k].footprint_offset
            % D3D12_TEXTURE_DATA_PLACEMENT_ALIGNMENT = 0

\* C11 witness: a copy command returned for a region whose layer starts at a
\* byte offset that is no multiple of 512, with a Copy placed at a later
\* placement boundary than byte 0.
C11_Witness ==
    /\ Copied
    /\ \E i \in CopiedRegions : \E j \in CopiedLayers(i) :
         /\ region.regions[i].buffer_offset
              % D3D12_TEXTURE_DATA_PLACEMENT_ALIGNMENT # 0
         /\ \E k \in 1..Len(produced[i][j]) :
              produced[i][j][k].footprint_offset > 0

-----------------------------------------------------------------------------
(* Properties of the render pass engine *)

\* a render pass ran from begin_render_pass through every subpass to a
\* returning end_render_pass
CompletePass ==
    /\ op = "end_render_pass" /\ ~aborted
    /\ pass_log.ended
    /\ pass_log.nexts = Len(pass_log.pass[1].render_pass.subpasses) - 1

\* the barrier insertions of the pass, in order
BarrierEvents == SelectSeq(pass_log.events, LAMBDA e : e.kind = "barriers")

\* C12: a render pass of N subpasses run by begin_render_pass, N-1 next_subpass
\* and end_render_pass inserts barriers exactly N+1 times: the i-th insertion is
\* made on entry to subpass i with that subpass's pre-barriers, the last at the
\* end with the post-barriers.
C12_BarrierInsertions ==
    CompletePass =>
      LET rp == pass_log.pass[1].render_pass
          N == Len(rp.subpasses)
      IN /\ Len(BarrierEvents) = N + 1
         /\ \A i \in 1..N :
              /\ BarrierEvents[i].at = i - 1
              /\ BarrierEvents[i].from = "pre"
              /\ BarrierEvents[i].barriers = rp.subpasses[i].pre_barriers
         /\ BarrierEvents[N + 1].from = "post"
         /\ BarrierEvents[N + 1].barriers = rp.post_barriers

C12_Witness ==
    /\ CompletePass
    /\ Len(pass_log.pass[1].render_pass.subpasses) = 3
    /\ Len(BarrierEvents) = 4

\* the clears the pass issued for attachment id (counting from 0), in order
ClearEvents(id) ==
    SelectSeq(pass_log.events,
              LAMBDA e : e.kind \in {"clear_rtv", "clear_dsv"} /\ e.attachment = id)

\* attachment id of the pass has a clear load operation: of its colour or depth,
\* or of the stencil of a depth-stencil view
HasClearLoad(id) ==
    LET attachment == pass_log.pass[1].render_pass.attachments[id + 1]
        view == pass_log.pass[1].framebuffer.attachments[id + 1]
    IN \/ attachment.ops_load = "Clear"
       \/ attachment.stencil_ops_load = "Clear" /\ view.handle_dsv.some

\* the attachments of the pass, counted from 0
PassAttachments == 0 .. (Len(pass_log.pass[1].render_pass.attachments) - 1)

\* the first-use subpass of attachment id, None when no subpass uses it
FirstUseOf(id) == FirstUse(pass_log.pass[1].render_pass.subpasses, id)

-----------------------------------------------------------------------------
(* Properties of the queries *)

\* the query is the one tracked for its category: the occlusion query of its
\* id, binary or precise, or the pipeline statistics query of its id
MatchesTracked(query) ==
    \/ /\ query.ty = "OCCLUSION"
       /\ occlusion_query # << >>
       /\ occlusion_query[1].id = query.id
    \/ /\ query.ty = "PIPELINE_STATISTICS"
       /\ pipeline_stats_query = << query.id >>

\* C14: an end_query whose pool type and id do not match the query tracked for
\* that category (nothing tracked, or another id) panics, leaves both trackers
\* as they were and records no native EndQuery.
C14_MismatchedEndIsFatal ==
    [][\A q \in Queries :
         (EndQuery(q) /\ ~MatchesTracked(q)) =>
           /\ aborted'
           /\ occlusion_query' = occlusion_query
           /\ pipeline_stats_query' = pipeline_stats_query
           /\ calls' = << >>]_vars

\* an end_query panicked although both categories track a query
C14_Witness ==
    /\ op = "end_query" /\ aborted
    /\ occlusion_query # << >>
    /\ pipeline_stats_query # << >>
    /\ calls = << >>

\* the tracker of the category of a query
Tracker(query) ==
    IF query.ty = "OCCLUSION" THEN occlusion_query ELSE pipeline_stats_query

\* C15: an end_query matching the tracked query returns and leaves the tracker
\* of its category None; a begin_query of a category whose tracker is None
\* returns and is tracked.  Every step of a sequence that alternates begin_query
\* and matching end_query per category is one of the two, so none aborts.
C15_AlternationNeverAborts ==
    [][\A q \in Queries \ { Query("TIMESTAMP", id) : id \in QueryIds } :
         /\ (EndQuery(q) /\ MatchesTracked(q)) =>
              /\ ~aborted'
              /\ Tracker(q)' = << >>
              /\ Len(calls') = 1 /\ calls'[1].call = "EndQuery" /\ calls'[1].slot = q.id
         /\ \A precise \in BOOLEAN :
              (BeginQuery(q, precise) /\ Tracker(q) = << >>) =>
                /\ ~aborted'
                /\ Tracker(q)' # << >>
                /\ MatchesTracked(q)']_vars

\* a matching end_query returned and cleared the occlusion tracker while the
\* pipeline statistics query is still tracked
C15_Witness ==
    /\ op = "end_query" /\ ~aborted
    /\ occlusion_query = << >>
    /\ pipeline_stats_query # << >>
    /\ nops >= 3

-----------------------------------------------------------------------------
(* Properties of the descriptor set binding *)

\* the registers the push-constant ranges of a layout take
PushRegisters(layout) ==
    Cardinality({ <<k, reg>> \in (DOMAIN layout.root_constants) \X Regs :
                    /\ layout.root_constants[k].start <= reg
                    /\ reg < layout.root_constants[k].end })

\* the tables the layout entries before first_set declare
DeclaredBefore(layout, first_set) ==
    Cardinality({ <<k, kind>> \in (1..first_set) \X {SRV_CBV_UAV, SAMPLERS} :
                    kind \in layout.tables[k] })

\* the tables of a batch of sets as root elements, the view table of a set
\* before its sampler table, their offsets relative to the heaps of set_0
RECURSIVE SetTables(_, _)
SetTables(sets, set_0) ==
    IF sets = << >> THEN << >>
    ELSE (IF Head(sets).first_gpu_view.some
          THEN << TableSrvCbvUav(TableOffset(Head(sets).first_gpu_view.ptr,
                                             set_0.srv_cbv_uav_gpu_start)) >>
          ELSE << >>)
         \o (IF Head(sets).first_gpu_sampler.some
             THEN << TableSampler(TableOffset(Head(sets).first_gpu_sampler.ptr,
                                              set_0.sampler_gpu_start)) >>
             ELSE << >>)
         \o SetTables(Tail(sets), set_0)

\* the store after the call holds the tables of the request in consecutive
\* dirty registers from the start register on, and is otherwise as before
SetsWritten(r, before, after) ==
    LET start == PushRegisters(r.layout) + DeclaredBefore(r.layout, r.first_set)
        n == Min(Len(r.sets), Len(r.layout.tables) - r.first_set)
        tables == IF r.sets = << >> THEN << >>
                  ELSE SetTables(SubSeq(r.sets, 1, n), r.sets[1])
        regs == start .. (start + Len(tables) - 1)
    IN /\ \A k \in 1..Len(tables) :
            /\ after.data[start + k - 1] = tables[k]
            /\ (start + k - 1) \in after.dirty_mask
       /\ \A reg \in Regs \ regs :
            /\ after.data[reg] = before.data[reg]
            /\ (reg \in after.dirty_mask) = (reg \in before.dirty_mask)

\* C16: a bind_*_descriptor_sets that returns writes the tables of the sets to
\* consecutive registers starting at (registers of the push-constant ranges) +
\* (tables declared by the layout entries before first_set), the view table of
\* a set before its sampler table, each tagged by its kind and marked dirty,
\* and touches no other register.
C16_SetsWrittenConsecutively ==
    [][/\ (op' = "bind_graphics_descriptor_sets" /\ ~aborted') =>
            \A r \in SetRequests :
              BindGraphicsDescriptorSets(r.layout, r.first_set, r.sets) =>
                SetsWritten(r, gr_pipeline.user_data, gr_pipeline'.user_data)
       /\ (op' = "bind_compute_descriptor_sets" /\ ~aborted') =>
            \A r \in SetRequests :
              BindComputeDescriptorSets(r.layout, r.first_set, r.sets) =>
                SetsWritten(r, comp_pipeline.user_data, comp_pipeline'.user_data)]_vars

\* the example of the claim: no push constants, first_set 0, a set with a view
\* table and a set with both tables, bound to a clean store
C16_Witness ==
    /\ op = "bind_graphics_descriptor_sets" /\ ~aborted
    /\ gr_pipeline.user_data.dirty_mask = {0, 1, 2}
    /\ gr_pipeline.user_data.data[0].tag = "TableSrvCbvUav"
    /\ gr_pipeline.user_data.data[1].tag = "TableSrvCbvUav"
    /\ gr_pipeline.user_data.data[2].tag = "TableSampler"

-----------------------------------------------------------------------------
(* Properties of drawing *)

\* C17: a draw issued while no graphics pipeline has been bound since creation
\* or the last reset panics and records no native draw call.
C17_DrawWithoutPipelineIsFatal ==
    (op = "draw" /\ ~gr_pipeline.pipeline.some) =>
      /\ aborted
      /\ \A k \in 1..Len(calls) : calls[k].call # "DrawInstanced"

-----------------------------------------------------------------------------
(* Properties of the unimplemented operations and of pipeline_barrier *)

\* C18: blit_image, update_buffer, and execute_commands given at least one
\* secondary command buffer, panic instead of returning.
C18_UnimplementedAborts ==
    [][/\ BlitImage => aborted'
       /\ UpdateBuffer => aborted'
       /\ \A n \in SecondaryCounts \ {0} : ExecuteCommands(n) => aborted']_vars

\* entry k (counting from 1) of the batch of a ResourceBarrier call
BatchEntry(c, k) == SubSeq(c.data, 5 * (k - 1) + 1, 5 * k)

-----------------------------------------------------------------------------
(* Properties of the dirty mask *)

\* C20: in every reachable state of a bind point's store, every register whose
\* dirty bit is set holds a Constant or a table offset, never Undefined.
C20_DirtyHoldsData ==
    \A cache \in {gr_pipeline, comp_pipeline} :
      \A reg \in cache.user_data.dirty_mask :
        cache.user_data.data[reg].tag # "Undefined"

-----------------------------------------------------------------------------
(* Properties of reset *)

\* a bind cache is empty: no pipeline, no parameter slot, no push-constant
\* range, every register Undefined, no dirty bit, both heap bases zero
EmptyCache(cache) ==
    /\ ~cache.pipeline.some
    /\ cache.num_parameter_slots = 0
    /\ cache.root_constants = << >>
    /\ \A reg \in Regs : cache.user_data.data[reg].tag = "Undefined"
    /\ cache.user_data.dirty_mask = {}
    /\ cache.srv_cbv_uav_start = 0
    /\ cache.sampler_start = 0

\* C21: after reset, whatever preceded it, there is no active render pass, the
\* subpass index is the sentinel, both bind caches are empty, the active bind
\* point is Graphics and both query trackers are None.
C21_ResetState ==
    op = "reset" =>
      /\ pass_cache = << >>
      /\ cur_subpass = USIZE_MAX
      /\ EmptyCache(gr_pipeline)
      /\ EmptyCache(comp_pipeline)
      /\ active_bindpoint = "Graphics"
      /\ occlusion_query = << >>
      /\ pipeline_stats_query = << >>

\* a reset in the middle of a render pass, after three other operations
C21_Witness ==
    /\ op = "reset"
    /\ pass_log.pass # << >>
    /\ ~pass_log.ended
    /\ nops = 4

-----------------------------------------------------------------------------
(* Properties of binding no set *)

\* the requests that bind an empty sequence of sets
EmptyRequests == { r \in SetRequests : r.sets = << >> }

\* C22: bind_graphics_descriptor_sets / bind_compute_descriptor_sets with an
\* empty sequence of sets records no native call and changes no register, no
\* dirty bit and neither heap base of either cache.
C22_EmptySetsNoOp ==
    [][(op' \in {"bind_graphics_descriptor_sets", "bind_compute_descriptor_sets"}) =>
        \A r \in EmptyRequests :
          (\/ BindGraphicsDescriptorSets(r.layout, r.first_set, r.sets)
           \/ BindComputeDescriptorSets(r.layout, r.first_set, r.sets)) =>
            /\ calls' = << >>
            /\ ~aborted'
            /\ gr_pipeline'.user_data = gr_pipeline.user_data
            /\ comp_pipeline'.user_data = comp_pipeline.user_data
            /\ gr_pipeline'.srv_cbv_uav_start = gr_pipeline.srv_cbv_uav_start
            /\ gr_pipeline'.sampler_start = gr_pipeline.sampler_start
            /\ comp_pipeline'.srv_cbv_uav_start = comp_pipeline.srv_cbv_uav_start
            /\ comp_pipeline'.sampler_start = comp_pipeline.sampler_start]_vars

\* an empty bind on a graphics cache that holds dirty tables and heap bases
C22_Witness ==
    /\ op = "bind_graphics_descriptor_sets"
    /\ calls = << >>
    /\ ~aborted
    /\ gr_pipeline.user_data.dirty_mask # {}
    /\ gr_pipeline.srv_cbv_uav_start # 0
    /\ gr_pipeline.sampler_start # 0

-----------------------------------------------------------------------------
(* Properties of two command buffers *)

\* the state of a command buffer that recording reads and writes: its caches,
\* trackers, scratch buffer, and the native calls of its last operation
Recorded(b) ==
    <<b.gr_pipeline, b.comp_pipeline, b.active_bindpoint, b.copies, b.pass_cache,
      b.cur_subpass, b.occlusion_query, b.pipeline_stats_query, b.calls, b.aborted>>

-----------------------------------------------------------------------------
(* Properties of the operations that pass the query trackers by *)

\* C24: write_timestamp never aborts, whatever is tracked, and records its
\* native EndQuery; write_timestamp and reset_query_pool leave both trackers
\* unchanged; begin_query and end_query of an occlusion query leave the
\* pipeline-statistics tracker unchanged, and those of a pipeline-statistics
\* query leave the occlusion tracker unchanged.
C24_TrackersBypassed ==
    [][/\ op' = "write_timestamp" =>
            /\ ~aborted'
            /\ Len(calls') = 1
            /\ calls'[1].call = "EndQuery"
            /\ UNCHANGED queryVars
       /\ op' = "reset_query_pool" => (~aborted' /\ UNCHANGED queryVars)
       /\ \A q \in Queries :
            (EndQuery(q) \/ \E precise \in BOOLEAN : BeginQuery(q, precise)) =>
              /\ q.ty = "OCCLUSION" => UNCHANGED pipeline_stats_query
              /\ q.ty = "PIPELINE_STATISTICS" => UNCHANGED occlusion_query]_vars

\* a timestamp written while both categories are tracked
C24_Witness ==
    /\ op = "write_timestamp"
    /\ ~aborted
    /\ occlusion_query # << >>
    /\ pipeline_stats_query # << >>

-----------------------------------------------------------------------------
(* Properties of a signature change *)

\* the registers of a store hold no value and the heap bases are forgotten
Discarded(cache) ==
    /\ \A reg \in Regs : cache.user_data.data[reg].tag = "Undefined"
    /\ cache.srv_cbv_uav_start = 0
    /\ cache.sampler_start = 0

\* the registers and the heap bases of a cache are those of another
Retained(after, before) ==
    /\ after.user_data.data = before.user_data.data
    /\ after.srv_cbv_uav_start = before.srv_cbv_uav_start
    /\ after.sampler_start = before.sampler_start

-----------------------------------------------------------------------------
(* Properties of the table loop of flush_user_data *)

\* the parameter slots of a cache that follow its push-constant ranges
TableSlots(cache) ==
    { i \in Regs : Len(cache.root_constants) <= i /\ i < cache.num_parameter_slots }

\* the register of table slot i
SlotRegister(cache, i) ==
    i - Len(cache.root_constants) + TableBaseOffset(cache.root_constants)

\* the calls of the table writer `name` in a sequence of calls, at slot i
TableCallsAt(cs, name, i) ==
    { k \in 1..Len(cs) : cs[k].call = name /\ cs[k].slot = i }

\* the handle the claim gives to a table register
ClaimedHandle(cache, elem) ==
    IF elem.tag = "TableSrvCbvUav" THEN cache.srv_cbv_uav_start + elem.v
    ELSE cache.sampler_start + elem.v

\* a flush of `before` that left `after` and recorded cs wrote the tables as claimed
TablesFlushed(before, after, cs, name) ==
    /\ \A i \in TableSlots(before) :
          LET reg == SlotRegister(before, i)
              elem == before.user_data.data[reg]
              at == TableCallsAt(cs, name, i)
          IN IF reg \in before.user_data.dirty_mask
                /\ elem.tag \in {"TableSrvCbvUav", "TableSampler"}
             THEN /\ Cardinality(at) = 1
                  /\ \A k \in at : cs[k].arg = ClaimedHandle(before, elem)
                  /\ reg \notin after.user_data.dirty_mask
             ELSE at = {}
    /\ \A k \in 1..Len(cs) : cs[k].call = name => cs[k].slot \in TableSlots(before)

\* C26: in a flush, the table writer is invoked with slot i (number of
\* push-constant ranges <= i < num_parameter_slots) iff the register
\* i - number of ranges + total constant registers is dirty and holds a table;
\* the handle is the SRV/CBV/UAV heap base plus the stored offset for a
\* TableSrvCbvUav, the sampler heap base plus the stored offset for a
\* TableSampler, and the register's dirty bit is then clear.
C26_TableSlotsFlushed ==
    [][ /\ FlushedGraphics' =>
              TablesFlushed(gr_pipeline, gr_pipeline', calls',
                            "SetGraphicsRootDescriptorTable")
        /\ FlushedCompute' =>
              TablesFlushed(comp_pipeline, comp_pipeline', calls',
                            "SetComputeRootDescriptorTable") ]_vars

\* a draw that wrote a view table and a sampler table and passed over a slot
\* whose register holds no table
C26_Witness ==
    /\ op = "draw"
    /\ ~aborted
    /\ \E k \in 1..Len(calls) :
          /\ calls[k].call = "SetGraphicsRootDescriptorTable"
          /\ calls[k].arg = gr_pipeline.sampler_start
                             + gr_pipeline.user_data.data[calls[k].regs[1]].v
          /\ gr_pipeline.user_data.data[calls[k].regs[1]].tag = "TableSampler"
    /\ \E k \in 1..Len(calls) :
          /\ calls[k].call = "SetGraphicsRootDescriptorTable"
          /\ gr_pipeline.user_data.data[calls[k].regs[1]].tag = "TableSrvCbvUav"
    /\ \E i \in TableSlots(gr_pipeline) :
          TableCallsAt(calls, "SetGraphicsRootDescriptorTable", i) = {}

-----------------------------------------------------------------------------
(* Properties of the recovery of flush_user_data *)

\* the first register of push-constant range j (ranges are packed from register 0)
RangeStart(cache, j) == TableBaseOffset(SubSeq(cache.root_constants, 1, j - 1))

\* the value the constants writer is given for a register
Delivered(elem) == IF elem.tag = "Constant" THEN elem.v ELSE 0

\* a flush of `before` that recorded cs wrote every push-constant range, a
\* register without a constant as 0
RangesWritten(before, cs, name) ==
    \A j \in 1..Len(before.root_constants) :
      LET len == before.root_constants[j].end - before.root_constants[j].start
          at == { k \in 1..Len(cs) : cs[k].call = name /\ cs[k].slot = j - 1 }
      IN /\ Cardinality(at) = 1
         /\ \A k \in at :
              /\ Len(cs[k].data) = len
              /\ \A n \in 1..len :
                    cs[k].data[n]
                      = Delivered(before.user_data.data[RangeStart(before, j) + n - 1])

\* the table slots of a cache whose register is dirty and holds no table
Mistagged(cache) ==
    { i \in TableSlots(cache) :
        /\ SlotRegister(cache, i) \in cache.user_data.dirty_mask
        /\ cache.user_data.data[SlotRegister(cache, i)].tag
             \notin {"TableSrvCbvUav", "TableSampler"} }

\* a flush of `before` that recorded cs passed over the mistagged table slots
\* and went on to the slots after them
MistaggedSkipped(before, cs, name) ==
    \A i \in Mistagged(before) :
      /\ TableCallsAt(cs, name, i) = {}
      /\ \A later \in TableSlots(before) \ Mistagged(before) :
            (later > i /\ SlotRegister(before, later) \in before.user_data.dirty_mask)
              => TableCallsAt(cs, name, later) # {}

\* C27: flush_user_data does not abort on missing or mistagged data: a draw
\* or dispatch that reaches its flush (its bind point active, or a pipeline
\* cached) returns; a flush that finds a dirty bit writes every push-constant
\* range, a register that holds no Constant as 0; a dirty register at a table
\* slot that holds no table gets no table-writer call and the slots after it
\* are still written.
C27_FlushRecovers ==
    [][ /\ (op' = "draw" /\ (active_bindpoint = "Graphics" \/ gr_pipeline.pipeline.some))
              => ~aborted'
        /\ (op' = "dispatch" /\ (active_bindpoint = "Compute" \/ comp_pipeline.pipeline.some))
              => ~aborted'
        /\ (FlushedGraphics' /\ gr_pipeline.user_data.dirty_mask # {}) =>
              /\ RangesWritten(gr_pipeline, calls', "SetGraphicsRoot32BitConstants")
              /\ MistaggedSkipped(gr_pipeline, calls', "SetGraphicsRootDescriptorTable")
        /\ (FlushedCompute' /\ comp_pipeline.user_data.dirty_mask # {}) =>
              /\ RangesWritten(comp_pipeline, calls', "SetComputeRoot32BitConstants")
              /\ MistaggedSkipped(comp_pipeline, calls', "SetComputeRootDescriptorTable")
      ]_vars

\* a draw that delivered a register without a constant as 0 in a range that
\* also holds a pushed constant, passed over its table slot, whose register
\* holds no table, and recorded the native draw
C27_Witness ==
    /\ op = "draw"
    /\ ~aborted
    /\ \E k \in 1..Len(calls) :
          /\ calls[k].call = "SetGraphicsRoot32BitConstants"
          /\ \E n \in 1..Len(calls[k].data) :
                /\ gr_pipeline.user_data.data[calls[k].regs[n]].tag # "Constant"
                /\ calls[k].data[n] = 0
          /\ \E n \in 1..Len(calls[k].data) :
                gr_pipeline.user_data.data[calls[k].regs[n]].tag = "Constant"
    /\ \E i \in TableSlots(gr_pipeline) :
          /\ SlotRegister(gr_pipeline, i) \in gr_pipeline.user_data.dirty_mask
          /\ TableCallsAt(calls, "SetGraphicsRootDescriptorTable", i) = {}
    /\ calls[Len(calls)].call = "DrawInstanced"

-----------------------------------------------------------------------------
(* Properties of the laziness of root-signature writes *)

\* the operations that update a cache
CacheOperations ==
    {"bind_graphics_descriptor_sets", "bind_compute_descriptor_sets",
     "push_graphics_constants", "push_compute_constants",
     "bind_graphics_pipeline", "bind_compute_pipeline"}

\* the places of a native call in the calls of the last operation
CallsOf(name) == { k \in 1..Len(calls) : calls[k].call = name }

\* C28: root-signature writes are lazy: a descriptor-set bind, a push of
\* constants and a pipeline bind record no root-constant and no
\* descriptor-table write; only a draw or a dispatch records such writes,
\* each after the pipeline-state switch of that operation, if there is one,
\* and before its native draw / dispatch call.
C28_WritesAreLazy ==
    /\ op \in CacheOperations => WriterCalls = {}
    /\ op \notin {"draw", "dispatch"} => WriterCalls = {}
    /\ op = "draw" =>
          \A k \in WriterCalls :
            /\ calls[k].call \in {"SetGraphicsRoot32BitConstants",
                                  "SetGraphicsRootDescriptorTable"}
            /\ \A j \in CallsOf("SetPipelineState") : j < k
            /\ \E j \in CallsOf("DrawInstanced") : j > k
    /\ op = "dispatch" =>
          \A k \in WriterCalls :
            /\ calls[k].call \in {"SetComputeRoot32BitConstants",
                                  "SetComputeRootDescriptorTable"}
            /\ \A j \in CallsOf("SetPipelineState") : j < k
            /\ \E j \in CallsOf("Dispatch") : j > k

\* a draw that switched the pipeline state back from compute, then wrote
\* constants and a table, then drew
C28_Witness ==
    /\ op = "draw"
    /\ CallsOf("SetPipelineState") # {}
    /\ CallsOf("SetGraphicsRoot32BitConstants") # {}
    /\ CallsOf("SetGraphicsRootDescriptorTable") # {}
    /\ CallsOf("DrawInstanced") # {}

-----------------------------------------------------------------------------
(* Properties of the active bind point *)

\* the operations the claim lets change the active bind point
BindPointOperations ==
    {"draw", "dispatch", "bind_graphics_pipeline", "bind_compute_pipeline"}

\* C29: the active bind point changes only in draw, dispatch,
\* bind_graphics_pipeline and bind_compute_pipeline; every other operation
\* leaves it unchanged.
C29_OnlyDrawDispatchBind ==
    [][active_bindpoint' # active_bindpoint => op' \in BindPointOperations]_vars

\* C29 as the code has it: the active bind point changes only in draw,
\* dispatch, bind_graphics_pipeline, bind_compute_pipeline and in reset (which
\* begin calls), which makes Graphics active; every other operation leaves it
\* unchanged. A draw and a graphics pipeline bind that return leave Graphics
\* active, a dispatch and a compute pipeline bind Compute.
C29_BindPointChanges ==
    [][ /\ active_bindpoint' # active_bindpoint =>
              op' \in BindPointOperations \cup {"reset"}
        /\ (op' \in {"draw", "bind_graphics_pipeline", "reset"} /\ ~aborted') =>
              active_bindpoint' = "Graphics"
        /\ (op' \in {"dispatch", "bind_compute_pipeline"} /\ ~aborted') =>
              active_bindpoint' = "Compute" ]_vars

\* a next_subpass, with an occlusion query tracked, that left Compute active
C29_Witness ==
    /\ active_bindpoint = "Compute"
    /\ op = "next_subpass"
    /\ ~aborted
    /\ occlusion_query # << >>

-----------------------------------------------------------------------------
(* Properties of the render-pass state machine *)

\* the cache of a pass is present iff the subpass index is not the sentinel
PassIffSubpass == (pass_cache # << >>) <=> (cur_subpass # USIZE_MAX)

\* C30: after every operation that returns, the render-pass cache is present
\* iff the subpass index is not the sentinel; begin_render_pass creates the
\* cache of its pass and framebuffer and sets the index to 0, next_subpass
\* adds exactly 1 to the index and keeps the cache, end_render_pass sets the
\* sentinel and discards the cache.
C30_PassStateMachine ==
    [][ /\ ~aborted' => PassIffSubpass'
        /\ (op' = "begin_render_pass" /\ ~aborted') =>
              /\ cur_subpass' = 0
              /\ \E q \in PassRequests :
                    /\ BeginRenderPass(q.render_pass, q.framebuffer, q.clear_values)
                    /\ Len(pass_cache') = 1
                    /\ pass_cache'[1].render_pass = q.render_pass
                    /\ pass_cache'[1].framebuffer = q.framebuffer
        /\ (op' = "next_subpass" /\ ~aborted') =>
              /\ cur_subpass # USIZE_MAX
              /\ cur_subpass' = cur_subpass + 1
              /\ pass_cache # << >>
              /\ pass_cache' = pass_cache
        /\ (op' = "end_render_pass" /\ ~aborted') =>
              /\ cur_subpass' = USIZE_MAX
              /\ pass_cache' = << >> ]_vars

\* a pass of three subpasses run to its end: two next_subpass, then
\* end_render_pass
C30_Witness ==
    /\ op = "end_render_pass"
    /\ ~aborted
    /\ pass_log.nexts = 2
    /\ pass_cache = << >>
    /\ cur_subpass = USIZE_MAX

-----------------------------------------------------------------------------
(* Properties of the clear plan *)

\* an attachment whose load operation or stencil load operation is clear
Clears(attachment) ==
    attachment.ops_load = "Clear" \/ attachment.stencil_ops_load = "Clear"

\* the attachments before attachment i (counting from 1) that take a clear value
ClearingBefore(render_pass, i) ==
    Cardinality({ j \in 1..(i - 1) : Clears(render_pass.attachments[j]) })

\* the plan gives each clearing attachment the next clear value, in order
PlanAsClaimed(render_pass, clear_values, plan) ==
    /\ Len(plan) = Len(render_pass.attachments)
    /\ \A i \in 1..Len(plan) :
          LET attachment == render_pass.attachments[i]
              cv == clear_values[ClearingBefore(render_pass, i) + 1]
          IN /\ plan[i].value = IF attachment.ops_load = "Clear" THEN << cv >> ELSE << >>
             /\ plan[i].stencil_value = IF attachment.stencil_ops_load = "Clear"
                                        THEN Some(cv.stencil) ELSE None

\* C31: begin_render_pass consumes the clear values in attachment order, one
\* per attachment whose load or stencil load operation is clear (one even when
\* both are) and none for the others; the plan holds a colour/depth value only
\* where the load operation is clear, a stencil value only where the stencil
\* load operation is clear.
C31_ClearPlan ==
    [][op' = "begin_render_pass" =>
        \A q \in PassRequests :
          (/\ BeginRenderPass(q.render_pass, q.framebuffer, q.clear_values)
           /\ BeginAsserts(q.render_pass, q.framebuffer)
           /\ ClearingBefore(q.render_pass, Len(q.render_pass.attachments) + 1)
                <= Len(q.clear_values)) =>
            /\ Len(pass_cache') = 1
            /\ PlanAsClaimed(q.render_pass, q.clear_values,
                             pass_cache'[1].attachment_clears)]_vars

\* the plan of the pass of three attachments: the first, loaded, takes no
\* value; the second takes the first value; the third, whose stencil alone is
\* cleared, takes the second value for its stencil only
C31_Witness ==
    /\ op = "begin_render_pass"
    /\ pass_cache # << >>
    /\ pass_cache[1].render_pass = PassThree
    /\ pass_cache[1].attachment_clears[1].value = << >>
    /\ pass_cache[1].attachment_clears[2].value = << ClearValues[1] >>
    /\ pass_cache[1].attachment_clears[3].value = << >>
    /\ pass_cache[1].attachment_clears[3].stencil_value = Some(ClearValues[2].stencil)

-----------------------------------------------------------------------------
(* Properties of the translation of buffer and image transitions *)

\* the native states before and after of a buffer or image transition
NativeStates(b) ==
    IF b.kind = "Buffer"
    THEN << map_buffer_resource_state(b.states.start),
            map_buffer_resource_state(b.states.end) >>
    ELSE << map_image_resource_state(b.states.start[1], b.states.start[2]),
            map_image_resource_state(b.states.end[1], b.states.end[2]) >>

\* the (level, layer) pairs of the range of an image transition
RangePairs(b) ==
    { <<level, layer>> : level \in b.range.levels[1] .. (b.range.levels[2] - 1),
                         layer \in b.range.layers[1] .. (b.range.layers[2] - 1) }

\* the range of an image transition covers all levels and layers of its image
WholeImage(b) ==
    /\ b.range.levels = <<0, b.target.levels>>
    /\ b.range.layers = <<0, b.target.layers>>

\* the number of batch entries the claim gives to an input barrier
EntriesOf(b) ==
    IF b.kind \in {"AllBuffers", "AllImages"} THEN 1
    ELSE IF NativeStates(b)[1] = NativeStates(b)[2] THEN 0
    ELSE IF b.kind = "Buffer" \/ WholeImage(b) THEN 1
    ELSE Cardinality(RangePairs(b))

\* the number of batch entries of the input barriers before barrier n
RECURSIVE EntriesBefore(_, _)
EntriesBefore(barriers, n) ==
    IF n <= 1 THEN 0
    ELSE EntriesBefore(barriers, n - 1) + EntriesOf(barriers[n - 1])

\* the entries of a ResourceBarrier call that belong to input barrier n
OwnEntries(c, barriers, n) ==
    { BatchEntry(c, k) : k \in (EntriesBefore(barriers, n) + 1)
                               .. (EntriesBefore(barriers, n) + EntriesOf(barriers[n])) }

\* the transition entries of a buffer or image transition are as claimed
TransitionAsClaimed(c, barriers, n) ==
    LET b == barriers[n]
        own == OwnEntries(c, barriers, n)
    IN /\ \A e \in own :
            /\ e[1] = D3D12_RESOURCE_BARRIER_TYPE_TRANSITION
            /\ e[2] = b.target.resource
            /\ e[4] = NativeStates(b)[1]
            /\ e[5] = NativeStates(b)[2]
       /\ IF b.kind = "Buffer" \/ WholeImage(b)
          THEN \A e \in own : e[3] = D3D12_RESOURCE_BARRIER_ALL_SUBRESOURCES
          ELSE /\ { e[3] : e \in own }
                   = { p[1] + p[2] * b.target.levels : p \in RangePairs(b) }
               /\ Cardinality(own) = Cardinality(RangePairs(b))

\* C32: pipeline_barrier emits for an image transition whose native states
\* differ one barrier of all subresources when its range covers the whole
\* image, and otherwise one barrier per (level, layer) pair of the range, each
\* with the subresource index of its pair; a buffer or image transition whose
\* native states are equal emits nothing.
C32_TransitionsPerSubresource ==
    [][op' = "pipeline_barrier" =>
        \A barriers \in BarrierBatches :
          PipelineBarrier(barriers) =>
            /\ calls'[1].arg = EntriesBefore(barriers, Len(barriers) + 1) + 2
            /\ \A n \in 1..Len(barriers) :
                  barriers[n].kind \in {"Buffer", "Image"} =>
                    TransitionAsClaimed(calls'[1], barriers, n)]_vars

\* a batch of a transition of a part of the image, which gave one entry to
\* each of its two (level, layer) pairs, and of a transition between equal
\* native states, which gave none
C32_Witness ==
    /\ op = "pipeline_barrier"
    /\ calls[1].arg = 4
    /\ BatchEntry(calls[1], 1)[1] = D3D12_RESOURCE_BARRIER_TYPE_TRANSITION
    /\ BatchEntry(calls[1], 2)[1] = D3D12_RESOURCE_BARRIER_TYPE_TRANSITION
    /\ BatchEntry(calls[1], 1)[2] = BarrierImage.resource
    /\ BatchEntry(calls[1], 1)[3] # BatchEntry(calls[1], 2)[3]
    /\ BatchEntry(calls[1], 1)[3] # D3D12_RESOURCE_BARRIER_ALL_SUBRESOURCES
    /\ BatchEntry(calls[1], 1)[4] = BatchEntry(calls[1], 2)[4]

-----------------------------------------------------------------------------
(* Properties of the scratch list of the copy commands *)

CopyOperations == {"copy_buffer_to_image", "copy_image_to_buffer"}

\* the Copies a copy command produced, in the order of their production
ProducedCopies(layers) == Flatten(Flatten(layers))

\* C33: the scratch list of Copies is empty on entry to every copy command,
\* whatever was recorded before, and when the command returns every Copy it
\* produced has become one CopyTextureRegion call, in the order of production,
\* and the list is empty again.
C33_ScratchEmptyBetween ==
    [][op' \in CopyOperations =>
        /\ copies = << >>
        /\ ~aborted' =>
             /\ copies' = << >>
             /\ Len(calls') = Len(ProducedCopies(produced'))
             /\ \A k \in 1..Len(calls') :
                   calls'[k] = IF op' = "copy_buffer_to_image"
                               THEN BufferToImageCall(ProducedCopies(produced')[k])
                               ELSE ImageToBufferCall(ProducedCopies(produced')[k])]_vars

\* a copy command after three earlier operations that turned the several
\* Copies it produced into as many native calls
C33_Witness ==
    /\ op = "copy_image_to_buffer"
    /\ ~aborted
    /\ nops = 4
    /\ Len(ProducedCopies(produced)) >= 3
    /\ Len(calls) = Len(ProducedCopies(produced))
    /\ calls[1] # calls[2]
    /\ copies = << >>

-----------------------------------------------------------------------------
(* Properties of the way pushed constants reach the constants writer *)

\* the pipeline cached for a bind point was made with the layout
LayoutBound(cache, layout) ==
    /\ cache.pipeline.some
    /\ cache.pipeline.signature = layout.raw
    /\ cache.root_constants = layout.root_constants

\* the next flush of the cache hands every pushed constant that lies in a
\* range of the layout to the constants writer, as the element of its index
RoundTrip(cache, request, name) ==
    LET f == flush_user_data(cache, name, "table")
    IN \A j \in 1..Len(request.layout.root_constants) :
         \A k \in 1..Len(request.constants) :
           LET range == request.layout.root_constants[j]
               index == request.offset + k - 1
           IN (range.start <= index /\ index < range.end) =>
                \E n \in 1..Len(f.calls) :
                   /\ f.calls[n].call = name
                   /\ f.calls[n].slot = j - 1
                   /\ f.calls[n].data[index - range.start + 1] = request.constants[k]

\* C34: the values pushed by push_graphics_constants / push_compute_constants
\* for a range of the layout are the values the constants writer is handed for
\* that range at the next flush of the bind point, the pipeline of the layout
\* being bound: the element of constant index offset + k receives constants[k].
C34_PushedConstantsRoundTrip ==
    [][ /\ op' = "push_graphics_constants" =>
              \A r \in PushRequests :
                (PushGraphicsConstants(r.layout, r.offset, r.constants)
                   /\ ~aborted' /\ LayoutBound(gr_pipeline, r.layout))
                  => RoundTrip(gr_pipeline', r, "SetGraphicsRoot32BitConstants")
        /\ op' = "push_compute_constants" =>
              \A r \in PushRequests :
                (PushComputeConstants(r.layout, r.offset, r.constants)
                   /\ ~aborted' /\ LayoutBound(comp_pipeline, r.layout))
                  => RoundTrip(comp_pipeline', r, "SetComputeRoot32BitConstants") ]_vars

-----------------------------------------------------------------------------
(* Properties of the handles the table writer is given for the sets bound *)

TableTags == {"TableSrvCbvUav", "TableSampler"}

\* the handle a flush of the cache resolves for register reg
ResolvedHandle(cache, reg) == ClaimedHandle(cache, cache.user_data.data[reg])

\* a descriptor-set bind of `request` that took the cache from before to after
\* keeps every table register at the first handle of the set bound to it last:
\* a register the bind wrote resolves to the first view / sampler handle of a
\* set of the batch, any other table register to the handle it resolved to
\* before the bind
HandlesFollowSets(before, after, request) ==
    LET wrote == bind_descriptor_sets(Clean(before), request.layout, request.first_set,
                                      request.sets).val.user_data.dirty_mask
    IN \A reg \in Regs :
         after.user_data.data[reg].tag \in TableTags =>
           IF reg \in wrote
           THEN \E n \in 1..Len(request.sets) :
                   IF after.user_data.data[reg].tag = "TableSrvCbvUav"
                   THEN request.sets[n].first_gpu_view = Some(ResolvedHandle(after, reg))
                   ELSE request.sets[n].first_gpu_sampler = Some(ResolvedHandle(after, reg))
           ELSE ResolvedHandle(after, reg) = ResolvedHandle(before, reg)

\* C35: for every table register flushed, the handle passed to the table
\* writer is the first GPU descriptor handle of the descriptor set bound to
\* that register last, for every sequence of descriptor-set binds before the
\* flush, binds of sets of different heaps and of several sets at once included.
C35_HandleRoundTrip ==
    [][ /\ (op' = "bind_graphics_descriptor_sets" /\ ~aborted') =>
              \A r \in SetRequests :
                BindGraphicsDescriptorSets(r.layout, r.first_set, r.sets)
                  => HandlesFollowSets(gr_pipeline, gr_pipeline', r)
        /\ (op' = "bind_compute_descriptor_sets" /\ ~aborted') =>
              \A r \in SetRequests :
                BindComputeDescriptorSets(r.layout, r.first_set, r.sets)
                  => HandlesFollowSets(comp_pipeline, comp_pipeline', r) ]_vars

-----------------------------------------------------------------------------
(* Properties of the two bind caches taken together *)

GraphicsOperations ==
    {"bind_graphics_pipeline", "bind_graphics_descriptor_sets",
     "push_graphics_constants", "draw"}
ComputeOperations ==
    {"bind_compute_pipeline", "bind_compute_descriptor_sets",
     "push_compute_constants", "dispatch"}

\* the operations of one bind point leave the cache of the other as it was
CachesApart ==
    /\ op' \in GraphicsOperations => comp_pipeline' = comp_pipeline
    /\ op' \in ComputeOperations => gr_pipeline' = gr_pipeline

\* what was flushed for a bind point before the other bind point was used is
\* not written again by the draw / dispatch that comes back to it
FlushedOnceAcross ==
    /\ (FlushedGraphics' /\ since.Graphics = "flushed" /\ active_bindpoint = "Compute")
          => WriterCalls' = {}
    /\ (FlushedCompute' /\ since.Compute = "flushed" /\ active_bindpoint = "Graphics")
          => WriterCalls' = {}

\* C36: the graphics and compute bind caches are independent: pipeline binds,
\* descriptor-set binds, push constants and flushes of one bind point leave the
\* cached pipeline, registers, dirty mask and heap bases of the other unchanged,
\* so that what was recorded for one bind point survives the binds and
\* dispatches (draws) of the other and is flushed at most once.
C36_CachesIndependent ==
    [][CachesApart /\ FlushedOnceAcross]_vars

-----------------------------------------------------------------------------
(* Properties of the buffer offset of the layers of a region *)

\* the buffer offset the claim gives to the j-th layer of a region
ClaimedLayerOffset(r, image, j) ==
    LET row_pitch == RowPitch(r, image).val
        slice_pitch == SlicePitch(r, image, row_pitch).val
    IN r.buffer_offset + (j - 1) * slice_pitch * r.image_extent.depth

\* C37: the first layer of a region of a buffer-image copy is addressed in the
\* buffer at the region's buffer_offset and layer first + k at
\* buffer_offset + k * slice_pitch * depth, whatever the first layer is: the
\* first Copy of every layer is placed at that offset rounded down to
\* D3D12_TEXTURE_DATA_PLACEMENT_ALIGNMENT.
C37_LayerOffsetFromRegionStart ==
    Copied =>
      \A i \in CopiedRegions : \A j \in CopiedLayers(i) :
        produced[i][j] # << >> =>
          produced[i][j][1].footprint_offset
            = AlignDown(ClaimedLayerOffset(region.regions[i], region.image, j))

-----------------------------------------------------------------------------
(* Properties of the cached viewport and scissor arrays *)

\* an update of a cached array by (first, items) that left `after`: entry
\* first + i is items[i], every entry cached before outside
\* [first, first + len) is as it was, and nothing else is cached
PartialUpdate(before, after, first, items) ==
    /\ \A i \in 0..(Len(items) - 1) :
          /\ first + i + 1 \in DOMAIN after
          /\ after[first + i + 1] = items[i + 1]
    /\ \A n \in DOMAIN before :
          (n - 1 < first \/ n - 1 >= first + Len(items)) =>
            (n \in DOMAIN after /\ after[n] = before[n])

\* the one native call of the operation submits the whole array
WholeArraySubmitted(cs, name, cache) ==
    /\ Len(cs) = 1
    /\ cs[1].call = name
    /\ cs[1].arg = Len(cache)
    /\ cs[1].data = Flatten(cache)

\* C39: set_viewports(first, vs) and set_scissors(first, rs) update a part of
\* the cached array: afterwards entry first + i is vs[i] (rs[i]) for every i,
\* every entry cached before outside [first, first + len) is unchanged, and
\* the whole array is submitted in one native call, for any first, one past
\* the length of the array included.
C39_PartialUpdates ==
    [][ /\ op' = "set_viewports" =>
              \A r \in ViewportRequests :
                SetViewports(r.first, r.items) =>
                  /\ PartialUpdate(viewport_cache, viewport_cache', r.first,
                                   [n \in 1..Len(r.items) |-> D3D12_VIEWPORT(r.items[n])])
                  /\ WholeArraySubmitted(calls', "RSSetViewports", viewport_cache')
        /\ op' = "set_scissors" =>
              \A r \in ScissorRequests :
                SetScissors(r.first, r.items) =>
                  /\ PartialUpdate(scissor_cache, scissor_cache', r.first,
                                   [n \in 1..Len(r.items) |-> get_rect(r.items[n])])
                  /\ WholeArraySubmitted(calls', "RSSetScissorRects", scissor_cache') ]_vars

-----------------------------------------------------------------------------
(* Properties of a reset command buffer against a new one *)

\* the recording state of a command buffer: the fields of CommandBuffer
RecordingState(b) ==
    << b.gr_pipeline, b.comp_pipeline, b.active_bindpoint, b.pass_cache,
       b.cur_subpass, b.occlusion_query, b.pipeline_stats_query, b.copies,
       b.viewport_cache, b.scissor_cache >>

\* what set_viewports / set_scissors records on a new command buffer
OnNewViewports(r) ==
    << ArrayCall("RSSetViewports",
                 UpdateCache(CommandBufferNew.viewport_cache, r.first,
                             [n \in 1..Len(r.items) |-> D3D12_VIEWPORT(r.items[n])], 0)) >>
OnNewScissors(r) ==
    << ArrayCall("RSSetScissorRects",
                 UpdateCache(CommandBufferNew.scissor_cache, r.first,
                             [n \in 1..Len(r.items) |-> get_rect(r.items[n])], 0)) >>

\* C38: after reset the whole recording state of the command buffer is that
\* of a new one, the cached viewport and scissor arrays and the scratch list
\* of the copies included, so that an operation recorded after a reset emits
\* the native calls it emits on a new command buffer.
C38_ResetAsNew ==
    [][op = "reset" =>
         /\ RecordingState(ThisBuffer) = RecordingState(CommandBufferNew)
         /\ op' = "set_viewports" =>
               \A r \in ViewportRequests :
                 SetViewports(r.first, r.items) => calls' = OnNewViewports(r)
         /\ op' = "set_scissors" =>
               \A r \in ScissorRequests :
                 SetScissors(r.first, r.items) => calls' = OnNewScissors(r)]_vars

-----------------------------------------------------------------------------
(* Properties of dispatching *)

\* C40: a dispatch issued while no compute pipeline has been bound since
\* creation or the last reset panics and records no native dispatch; in every
\* reachable state where the active bind point is Compute a compute pipeline
\* is cached.
C40_DispatchWithoutPipelineIsFatal ==
    /\ (op = "dispatch" /\ ~comp_pipeline.pipeline.some) =>
          /\ aborted
          /\ \A k \in 1..Len(calls) : calls[k].call # "Dispatch"
    /\ active_bindpoint = "Compute" => comp_pipeline.pipeline.some

\* a dispatch that panicked, with a graphics pipeline bound and no compute
\* pipeline bound since the command buffer was made or reset
C40_Witness ==
    /\ op = "dispatch"
    /\ aborted
    /\ ~comp_pipeline.pipeline.some
    /\ bound.Compute = 0
    /\ active_bindpoint = "Graphics"
    /\ gr_pipeline.pipeline.some
    /\ calls = << >>

====
